---- MODULE Spec2Model ----
(***************************************************************************)
(* Working-hours-aware response-time engine of the conversation summary    *)
(* service: the calculate_working_seconds_sql UDF (three deployed          *)
(* variants), the working-hours resolvers of BigQueryService and           *)
(* AnalyticsService, the response-pair segmentation and the average        *)
(* response time of the three MERGE statements.                            *)
(*                                                                         *)
(* Timestamps are whole seconds counted from a Sunday 00:00:00 UTC, so     *)
(* that EXTRACT(DAYOFWEEK) of second 0 is 1 (Sunday).  TIME values are     *)
(* seconds of the day.  SQL NULL is the value NULL below.                  *)
(***************************************************************************)
EXTENDS Integers, Sequences, FiniteSets, TLC

VARIABLES
    \* ---- the UDF under call ----
    sched,          \* the 14 TIME arguments of the UDF
    start_ts,       \* start_timestamp argument
    end_ts,         \* end_timestamp argument
    udf_out,        \* result of the last UDF call: [variant, value] or NoCall
    \* ---- the MySQL side read by the resolvers ----
    working_hours,  \* rows of the MySQL working_hours table (a set: the
                    \* resolvers only filter it)
    user_mappings,  \* rows of callyzer_user_mappings, in result order
    resolved,       \* what the last resolver call returned, or NoCall
    \* ---- the BigQuery side read by the MERGE statements ----
    message_events, \* events of one chat, in message_timestamp order
    bq_working_hours, \* rows of the BigQuery working_hours table
    deployed_udf,   \* which CREATE OR REPLACE of the UDF is in force
    merge_source,   \* rows of the USING subquery of the last merge, or NoCall
    \* ---- the targets of the MERGE statements ----
    conversation_summary,      \* rows of the conversation_summary table
    daily_performance_summary, \* rows of the daily_performance_summary table
    current_timestamp,         \* CURRENT_TIMESTAMP() of the next statement
    merge_log,      \* the last MERGE executed: its kind, the target before
                    \* it, and whether it repeats the previous statement
    \* ---- the message_events table as the JavaScript side reads it ----
    stored_events,  \* rows of message_events, several chats, with event_id
    responseTimes,  \* what the last calculation over query rows returned
    \* ---- adjustResponseTimeForWorkingHours under call ----
    incomingTime,   \* incomingTime argument
    outgoingTime,   \* outgoingTime argument
    userWorkingHours, \* workingHours argument
    adjusted,       \* result of the last call, or NoCall
    \* ---- the express server and its two services ----
    mysqlConn,      \* this.mysqlConn of each AnalyticsService: a connection
                    \* number, 0 for null
    mysql,          \* the MySQL connections created so far, each with the
                    \* service that created it and whether it is open
    requests,       \* the requests received, each with its route, the
                    \* steps left to run and its answer
    jobs,           \* the BigQuery jobs executeMergeQuery has run
    shutdown        \* position of the SIGINT handler

udfVars == <<sched, start_ts, end_ts, udf_out>>
resVars == <<working_hours, user_mappings, resolved>>
segVars == <<message_events, bq_working_hours, deployed_udf, merge_source>>
tgtVars ==
    <<conversation_summary, daily_performance_summary, current_timestamp, merge_log>>
storeVars == <<stored_events, responseTimes>>
adjVars == <<incomingTime, outgoingTime, userWorkingHours, adjusted>>
svcVars == <<mysqlConn, mysql, requests, jobs, shutdown>>
vars == <<udfVars, resVars, segVars, tgtVars, storeVars, adjVars, svcVars>>

NULL == 0 - 1
NoCall == [kind |-> "none"]

\* ------------------------------------------------------------------
\* Bounds of the model
\* ------------------------------------------------------------------
\* Civil days (UTC) covered by the sampled instants: days 0..MaxDay,
\* day 0 being a Sunday.
MaxDay == 2

\* ------------------------------------------------------------------
\* Time arithmetic of BigQuery
\* ------------------------------------------------------------------
SecondsPerDay == 24 * 3600

HMS(h, m, s) == h * 3600 + m * 60 + s

\* Offset of the 'Asia/Kolkata' zone: UTC+05:30.
KolkataOffset == HMS(5, 30, 0)

\* DATE(ts [, zone]): the civil day number of ts in the zone at offset tz.
DATE(ts, tz) == (ts + tz) \div SecondsPerDay

\* TIME(ts [, zone]): the time of day of ts in the zone at offset tz.
TIME(ts, tz) == (ts + tz) % SecondsPerDay

\* EXTRACT(DAYOFWEEK FROM ts [AT TIME ZONE zone]): 1 = Sunday .. 7 = Saturday.
DAYOFWEEK(ts, tz) == (DATE(ts, tz) % 7) + 1

\* TIMESTAMP_DIFF(end, start, SECOND)
TIMESTAMP_DIFF(e, s) == e - s

Midnight == HMS(0, 0, 0)

\* ------------------------------------------------------------------
\* calculate_working_seconds_sql
\* ------------------------------------------------------------------
\* The <weekday>_start / <weekday>_end arguments that the WHEN branch for
\* EXTRACT(DAYOFWEEK) = dow reads.
BranchWindow(s, dow) ==
    CASE dow = 2 -> <<s.monday_start, s.monday_end>>
      [] dow = 3 -> <<s.tuesday_start, s.tuesday_end>>
      [] dow = 4 -> <<s.wednesday_start, s.wednesday_end>>
      [] dow = 5 -> <<s.thursday_start, s.thursday_end>>
      [] dow = 6 -> <<s.friday_start, s.friday_end>>
      [] dow = 7 -> <<s.saturday_start, s.saturday_end>>
      [] dow = 1 -> <<s.sunday_start, s.sunday_end>>

\* The inner CASE with its first WHEN only: the end of the response is not
\* compared with the end of the window.
InnerCaseDropEnd(st, en, w, tz) ==
    IF TIME(st, tz) < w[1]
    THEN 0
    ELSE TIMESTAMP_DIFF(en, st)

\* The inner CASE of a weekday branch: 0 when the response starts before or
\* ends after the window, the whole span otherwise.
InnerCase(st, en, w, tz) ==
    IF TIME(st, tz) < w[1] \/ TIME(en, tz) > w[2]
    THEN 0
    ELSE TIMESTAMP_DIFF(en, st)

\* The same-day CASE with the 00:00 guard (UTC and Asia/Kolkata variants).
SameDayGuarded(st, en, s, tz) ==
    LET w == BranchWindow(s, DAYOFWEEK(st, tz))
    IN  IF w[1] # NULL /\ w[2] # NULL /\ ~(w[1] = Midnight /\ w[2] = Midnight)
        THEN InnerCase(st, en, w, tz)
        ELSE 0

\* The same-day CASE of the variant without the 00:00 guard.
SameDayUnguarded(st, en, s, tz) ==
    LET w == BranchWindow(s, DAYOFWEEK(st, tz))
    IN  IF w[1] # NULL /\ w[2] # NULL
        THEN InnerCase(st, en, w, tz)
        ELSE 0

\* The UTC variant without its first WHEN (start_timestamp >= end_timestamp).
UdfUtcNoOrderCheck(st, en, s) ==
    IF DATE(st, 0) = DATE(en, 0)
    THEN SameDayGuarded(st, en, s, 0)
    ELSE 0

\* The UTC variant without the comparison of the two civil days.
UdfUtcNoDateCheck(st, en, s) ==
    IF st >= en THEN 0
    ELSE SameDayGuarded(st, en, s, 0)

\* UTC variant.
calculate_working_seconds_sql(st, en, s) ==
    IF st >= en THEN 0
    ELSE IF DATE(st, 0) = DATE(en, 0)
         THEN SameDayGuarded(st, en, s, 0)
         ELSE 0

\* Asia/Kolkata variant.
calculate_working_seconds_sql_kolkata(st, en, s) ==
    IF st >= en THEN 0
    ELSE IF DATE(st, KolkataOffset) = DATE(en, KolkataOffset)
         THEN SameDayGuarded(st, en, s, KolkataOffset)
         ELSE 0

\* Older variant, without the explicit 00:00 guard.
calculate_working_seconds_sql_unguarded(st, en, s) ==
    IF st >= en THEN 0
    ELSE IF DATE(st, 0) = DATE(en, 0)
         THEN SameDayUnguarded(st, en, s, 0)
         ELSE 0

Variants == {"utc", "kolkata", "unguarded"}

\* The function a call resolves to under each CREATE OR REPLACE.
Udf(variant, st, en, s) ==
    CASE variant = "utc" -> calculate_working_seconds_sql(st, en, s)
      [] variant = "kolkata" -> calculate_working_seconds_sql_kolkata(st, en, s)
      [] variant = "unguarded" -> calculate_working_seconds_sql_unguarded(st, en, s)

\* The zone in which a variant reads weekday, date and time of day.
ZoneOf(variant) == IF variant = "kolkata" THEN KolkataOffset ELSE 0

\* ------------------------------------------------------------------
\* Inputs of the UDF
\* ------------------------------------------------------------------
\* Times of day at which instants are sampled: around the boundaries of the
\* windows below (08:30, 09:30, 10:00, 10:05 are the instants of scenarios
\* S1 and S2), midnight, and an evening instant that is already the next
\* civil day in Asia/Kolkata.
SampleTimes ==
    {HMS(0, 0, 0), HMS(8, 30, 0), HMS(9, 30, 0), HMS(10, 0, 0),
     HMS(10, 5, 0), HMS(19, 0, 0)}

Times == {d * SecondsPerDay + t : d \in 0..MaxDay, t \in SampleTimes}

\* Windows of an open weekday.
OpenWindows == {<<HMS(9, 0, 0), HMS(18, 0, 0)>>, <<HMS(0, 0, 0), HMS(10, 0, 0)>>}

\* The two ways a weekday without working hours reaches the UDF.
ClosedWindows == {<<NULL, NULL>>, <<Midnight, Midnight>>}

\* DAYOFWEEK numbers the sampled instants can fall on, in either zone.
CoveredDays == 1..(MaxDay + 2)

MkSched(win) ==
    [monday_start |-> win[2][1], monday_end |-> win[2][2],
     tuesday_start |-> win[3][1], tuesday_end |-> win[3][2],
     wednesday_start |-> win[4][1], wednesday_end |-> win[4][2],
     thursday_start |-> win[5][1], thursday_end |-> win[5][2],
     friday_start |-> win[6][1], friday_end |-> win[6][2],
     saturday_start |-> win[7][1], saturday_end |-> win[7][2],
     sunday_start |-> win[1][1], sunday_end |-> win[1][2]]

\* A weekly schedule: the weekdays of `open` have window w, every other
\* weekday is closed and passed as c.
Schedules ==
    {MkSched([d \in 1..7 |-> IF d \in open THEN w ELSE c]) :
        open \in SUBSET CoveredDays, w \in OpenWindows, c \in ClosedWindows}

NoSched == MkSched([d \in 1..7 |-> <<NULL, NULL>>])

\* ------------------------------------------------------------------
\* State machine 1: calls of the UDF
\* ------------------------------------------------------------------
ResIdle ==
    /\ working_hours = {}
    /\ user_mappings = <<>>
    /\ resolved = NoCall

SegIdle ==
    /\ message_events = <<>>
    /\ bq_working_hours = {}
    /\ deployed_udf = "utc"
    /\ merge_source = NoCall

UdfIdle ==
    /\ sched = NoSched
    /\ start_ts = 0
    /\ end_ts = 0
    /\ udf_out = NoCall

TgtIdle ==
    /\ conversation_summary = {}
    /\ daily_performance_summary = {}
    /\ current_timestamp = 0
    /\ merge_log = NoCall

StoreIdle ==
    /\ stored_events = {}
    /\ responseTimes = NoCall

AdjIdle ==
    /\ incomingTime = 0
    /\ outgoingTime = 0
    /\ userWorkingHours = <<>>
    /\ adjusted = NoCall

\* The services as constructed, no request received.
SvcIdle ==
    /\ mysqlConn = [s \in {"analyticsService", "bigQueryService"} |-> 0]
    /\ mysql = <<>>
    /\ requests = <<>>
    /\ jobs = <<>>
    /\ shutdown = "running"

\* Everything outside the UDF, the resolvers and the merge sources is idle.
RestIdle == TgtIdle /\ StoreIdle /\ AdjIdle /\ SvcIdle

InitUdf ==
    /\ sched \in Schedules
    /\ start_ts \in Times
    /\ end_ts \in Times
    /\ udf_out = NoCall
    /\ ResIdle
    /\ SegIdle
    /\ RestIdle

CallUdf(variant) ==
    /\ udf_out' = [kind |-> "udf", variant |-> variant,
                   value |-> Udf(variant, start_ts, end_ts, sched)]
    /\ UNCHANGED <<sched, start_ts, end_ts, resVars, segVars,
                   tgtVars, storeVars, adjVars, svcVars>>

CallUtc == CallUdf("utc")

CallKolkata == CallUdf("kolkata")

CallUnguarded == CallUdf("unguarded")

NextUdf == CallUtc \/ CallKolkata \/ CallUnguarded

SpecUdf == InitUdf /\ [][NextUdf]_vars

\* ------------------------------------------------------------------
\* The contract of section 4.D, for comparison with the UDF
\* ------------------------------------------------------------------
Max(a, b) == IF a >= b THEN a ELSE b

Min(a, b) == IF a <= b THEN a ELSE b

IsClosed(w) == w[1] = NULL \/ w[2] = NULL \/ (w[1] = Midnight /\ w[2] = Midnight)

\* Seconds of [t0, t1) that lie in civil day d (of the zone at offset tz)
\* inside that weekday's half-open window [start, end).
DayIntersection(t0, t1, s, tz, d) ==
    LET w == BranchWindow(s, (d % 7) + 1)
        base == d * SecondsPerDay - tz
    IN  IF IsClosed(w) THEN 0
        ELSE Max(0, Min(t1, base + w[2]) - Max(t0, base + w[1]))

RECURSIVE SumDays(_, _, _, _, _, _)
SumDays(t0, t1, s, tz, d, last) ==
    IF d > last THEN 0
    ELSE DayIntersection(t0, t1, s, tz, d) + SumDays(t0, t1, s, tz, d + 1, last)

\* The number of seconds of [t0, t1] whose weekday is open and whose time of
\* day lies in that weekday's window.
IntersectionSeconds(t0, t1, s, tz) ==
    IF t0 >= t1 THEN 0
    ELSE SumDays(t0, t1, s, tz, DATE(t0, tz), DATE(t1, tz))

Called == udf_out # NoCall

\* ------------------------------------------------------------------
\* Claims about calculate_working_seconds_sql (checked under SpecUdf)
\* ------------------------------------------------------------------

\* C1: for t0 < t1 the UDF (UTC and Asia/Kolkata variants) returns the number
\* of seconds of [t0, t1] whose weekday is open and whose time of day lies in
\* that weekday's half-open window: boundary-crossing same-day intervals are
\* clipped and multi-day intervals sum the per-day intersections.
C1_EqualsIntersection ==
    (Called /\ udf_out.variant \in {"utc", "kolkata"} /\ start_ts < end_ts)
        => udf_out.value =
             IntersectionSeconds(start_ts, end_ts, sched, ZoneOf(udf_out.variant))

\* C5: split additivity of the UTC UDF: for every instant tm with
\* t0 <= tm <= t1, ws(t0, t1) = ws(t0, tm) + ws(tm, t1).
C5_SplitAdditive ==
    (Called /\ udf_out.variant = "utc")
        => \A tm \in Times :
             (start_ts <= tm /\ tm <= end_ts)
                => udf_out.value =
                     calculate_working_seconds_sql(start_ts, tm, sched)
                     + calculate_working_seconds_sql(tm, end_ts, sched)

\* C6: monotonicity of the UTC UDF: extending the interval to the right never
\* decreases the result: for t0 <= t1 <= t2, ws(t0, t2) >= ws(t0, t1).
C6_Monotone ==
    (Called /\ udf_out.variant = "utc")
        => \A t2 \in Times :
             (start_ts <= end_ts /\ end_ts <= t2)
                => calculate_working_seconds_sql(start_ts, t2, sched)
                     >= udf_out.value

\* C7: the result of the UDF is non-negative, at most t1 - t0, and 0 whenever
\* t0 >= t1.
C7_Bounded ==
    Called
        => /\ udf_out.value >= 0
           /\ start_ts < end_ts => udf_out.value <= end_ts - start_ts
           /\ start_ts >= end_ts => udf_out.value = 0

\* A call that returned a whole, non-zero span.
C7_Witness ==
    /\ Called
    /\ start_ts < end_ts
    /\ udf_out.value = end_ts - start_ts

\* C8: in every variant, an interval whose start and end fall on a weekday
\* whose window is 00:00:00-00:00:00 or NULL yields 0.
C8_ClosedDayZero ==
    Called
        => LET tz == ZoneOf(udf_out.variant)
               dow == DAYOFWEEK(start_ts, tz)
               w == BranchWindow(sched, dow)
           IN  (/\ DAYOFWEEK(end_ts, tz) = dow
                /\ \/ w = <<NULL, NULL>>
                   \/ w = <<Midnight, Midnight>>)
                   => udf_out.value = 0

\* The variant without the 00:00 guard, called with start < end on one day
\* whose window is 00:00:00-00:00:00.
C8_Witness ==
    /\ Called
    /\ udf_out.variant = "unguarded"
    /\ start_ts < end_ts
    /\ DATE(start_ts, 0) = DATE(end_ts, 0)
    /\ BranchWindow(sched, DAYOFWEEK(start_ts, 0)) = <<Midnight, Midnight>>
    /\ udf_out.value = 0

\* C23: the UDF of working_hours_sql_udf_simple.sql returns 0 when t0 >= t1;
\* for t0 < t1 on one civil day whose weekday is open it returns t1 - t0 when
\* time(t0) >= start and time(t1) <= end of that weekday's window, and 0 when
\* the interval crosses either boundary; it returns 0 when t0 and t1 fall on
\* different civil days.
C23_FastPath ==
    (Called /\ udf_out.variant = "utc")
        => LET w == BranchWindow(sched, DAYOFWEEK(start_ts, 0))
           IN  /\ start_ts >= end_ts => udf_out.value = 0
               /\ (/\ start_ts < end_ts
                   /\ DATE(start_ts, 0) = DATE(end_ts, 0)
                   /\ ~IsClosed(w))
                  => udf_out.value =
                       IF TIME(start_ts, 0) >= w[1] /\ TIME(end_ts, 0) <= w[2]
                       THEN end_ts - start_ts
                       ELSE 0
               /\ DATE(start_ts, 0) # DATE(end_ts, 0) => udf_out.value = 0

\* Monday 10:00 -> Monday 10:05 against Monday 09:00-18:00 gave 300.
C23_Witness ==
    /\ Called
    /\ udf_out.variant = "utc"
    /\ start_ts = SecondsPerDay + HMS(10, 0, 0)
    /\ end_ts = SecondsPerDay + HMS(10, 5, 0)
    /\ sched.monday_start = HMS(9, 0, 0)
    /\ sched.monday_end = HMS(18, 0, 0)
    /\ udf_out.value = 300

\* ------------------------------------------------------------------
\* Working-hours resolution (MySQL side)
\* ------------------------------------------------------------------
\* Rows the MySQL tables may hold, at most this many at a time.
MaxRows == 3

MaxMappings == 2

Ids == {1, 2}

OrgIds == {1}

WeekDays ==
    <<"monday", "tuesday", "wednesday", "thursday", "friday", "saturday", "sunday">>

\* Rows of the working_hours table (type, type_id, week_day, start_time,
\* end_time).
WorkingHoursRows ==
    [type : {"self", "team", "org"}, type_id : Ids,
     week_day : {"monday", "tuesday"},
     start_time : {"10:00:00"}, end_time : {"12:00:00"}]

\* Rows of callyzer_user_mappings.
UserMappingRows == [user_id : Ids, org_id : OrgIds, team_id : Ids]

Tables == {t \in SUBSET WorkingHoursRows : Cardinality(t) <= MaxRows}

RECURSIVE SeqsUpTo(_, _)
SeqsUpTo(S, n) ==
    IF n = 0 THEN {<<>>}
    ELSE LET shorter == SeqsUpTo(S, n - 1)
         IN  shorter \cup {Append(q, x) : q \in shorter, x \in S}

\* Array.prototype.filter over the rows of working_hours.
Filter(rows, type, id) == {wh \in rows : wh.type = type /\ wh.type_id = id}

\* The built-in default of BigQueryService: 09:00-18:00 on all seven days.
DefaultHours ==
    {[week_day |-> WeekDays[i], start_time |-> "09:00:00", end_time |-> "18:00:00"] :
        i \in 1..7}

\* The built-in default of AnalyticsService, which carries timezone_offset.
DefaultHoursAnalytics ==
    {[week_day |-> WeekDays[i], start_time |-> "09:00:00", end_time |-> "18:00:00",
      timezone_offset |-> 0] : i \in 1..7}

\* BigQueryService.getWorkingHoursConfig(userId, orgId).
getWorkingHoursConfig(workingHours, userMapping, userId, orgId) ==
    LET selfHours == Filter(workingHours, "self", userId)
        teamHours == Filter(workingHours, "team", userId)
        orgHours == Filter(workingHours, "org", orgId)
    IN  IF selfHours # {} THEN [source |-> "self", workingHours |-> selfHours]
        ELSE IF teamHours # {} THEN [source |-> "team", workingHours |-> teamHours]
        ELSE IF orgHours # {} THEN [source |-> "org", workingHours |-> orgHours]
        ELSE [source |-> "default", workingHours |-> DefaultHours]

\* The loop body with the team scope tried before the self scope.
ResolveMappingTeamFirst(allWorkingHours, userMapping, defaults) ==
    LET selfHours == Filter(allWorkingHours, "self", userMapping.user_id)
        teamHours == Filter(allWorkingHours, "team", userMapping.team_id)
        orgHours == Filter(allWorkingHours, "org", userMapping.org_id)
        pick == IF teamHours # {} THEN <<"team", teamHours>>
                ELSE IF selfHours # {} THEN <<"self", selfHours>>
                ELSE IF orgHours # {} THEN <<"org", orgHours>>
                ELSE <<"default", defaults>>
    IN  [user_id |-> userMapping.user_id, org_id |-> userMapping.org_id,
         team_id |-> userMapping.team_id, type |-> pick[1],
         working_hours |-> pick[2]]

\* The body of the for loop of getAllWorkingHoursConfig: the result pushed
\* for one row of userMappings.
ResolveMapping(allWorkingHours, userMapping, defaults) ==
    LET selfHours == Filter(allWorkingHours, "self", userMapping.user_id)
        teamHours == Filter(allWorkingHours, "team", userMapping.team_id)
        orgHours == Filter(allWorkingHours, "org", userMapping.org_id)
        pick == IF selfHours # {} THEN <<"self", selfHours>>
                ELSE IF teamHours # {} THEN <<"team", teamHours>>
                ELSE IF orgHours # {} THEN <<"org", orgHours>>
                ELSE <<"default", defaults>>
    IN  [user_id |-> userMapping.user_id, org_id |-> userMapping.org_id,
         team_id |-> userMapping.team_id, type |-> pick[1],
         working_hours |-> pick[2]]

\* BigQueryService.getAllWorkingHoursConfig(): one result per row of
\* userMappings.
RECURSIVE getAllWorkingHoursConfigBQ(_, _)
getAllWorkingHoursConfigBQ(userMappings, allWorkingHours) ==
    IF userMappings = <<>> THEN <<>>
    ELSE <<ResolveMapping(allWorkingHours, Head(userMappings), DefaultHours)>>
         \o getAllWorkingHoursConfigBQ(Tail(userMappings), allWorkingHours)

\* AnalyticsService.getAllWorkingHoursConfig(): rows whose user_id is in
\* processedUsers are skipped.
RECURSIVE AnalyticsLoop(_, _, _)
AnalyticsLoop(userMappings, allWorkingHours, processedUsers) ==
    IF userMappings = <<>> THEN <<>>
    ELSE LET m == Head(userMappings)
         IN  IF m.user_id \in processedUsers
             THEN AnalyticsLoop(Tail(userMappings), allWorkingHours, processedUsers)
             ELSE <<ResolveMapping(allWorkingHours, m, DefaultHoursAnalytics)>>
                  \o AnalyticsLoop(Tail(userMappings), allWorkingHours,
                                   processedUsers \cup {m.user_id})

getAllWorkingHoursConfigAnalytics(userMappings, allWorkingHours) ==
    AnalyticsLoop(userMappings, allWorkingHours, {})

\* ------------------------------------------------------------------
\* State machine 2: the resolvers
\* ------------------------------------------------------------------
InitRes ==
    /\ working_hours \in Tables
    /\ user_mappings \in SeqsUpTo(UserMappingRows, MaxMappings)
    /\ resolved = NoCall
    /\ UdfIdle
    /\ SegIdle
    /\ RestIdle

\* GET /working-hours-config/:userId/:orgId
GetWorkingHoursConfig ==
    \E userId \in Ids, orgId \in Ids :
        /\ resolved' =
             [kind |-> "single", userId |-> userId, orgId |-> orgId,
              config |-> getWorkingHoursConfig(working_hours, user_mappings,
                                               userId, orgId)]
        /\ UNCHANGED <<working_hours, user_mappings, udfVars, segVars,
                   tgtVars, storeVars, adjVars, svcVars>>

\* GET /all-working-hours-config
GetAllWorkingHoursConfig ==
    /\ resolved' =
         [kind |-> "all_bq",
          results |-> getAllWorkingHoursConfigBQ(user_mappings, working_hours)]
    /\ UNCHANGED <<working_hours, user_mappings, udfVars, segVars,
                   tgtVars, storeVars, adjVars, svcVars>>

\* AnalyticsService.getAllWorkingHoursConfig, as called by testUserResponseTime
AnalyticsGetAllWorkingHoursConfig ==
    /\ resolved' =
         [kind |-> "all_analytics",
          results |-> getAllWorkingHoursConfigAnalytics(user_mappings,
                                                        working_hours)]
    /\ UNCHANGED <<working_hours, user_mappings, udfVars, segVars,
                   tgtVars, storeVars, adjVars, svcVars>>

NextRes ==
    \/ GetWorkingHoursConfig
    \/ GetAllWorkingHoursConfig
    \/ AnalyticsGetAllWorkingHoursConfig

SpecRes == InitRes /\ [][NextRes]_vars

\* ------------------------------------------------------------------
\* Claims about the resolvers (checked under SpecRes)
\* ------------------------------------------------------------------
Range(q) == {q[i] : i \in 1..Len(q)}

BulkCall == resolved # NoCall /\ resolved.kind \in {"all_bq", "all_analytics"}

\* Rows of the team and org scopes: the rows an edit of those scopes may add
\* or remove.
TeamOrgRows == {wh \in WorkingHoursRows : wh.type \in {"team", "org"}}

\* The tables one edit of a team or org entry away from t.
TeamOrgEdits(t) ==
    {t \cup {wh} : wh \in TeamOrgRows} \cup {t \ {wh} : wh \in TeamOrgRows}

IsDefaultSchedule(rows) ==
    /\ {wh.week_day : wh \in rows} = Range(WeekDays)
    /\ Cardinality(rows) = 7
    /\ \A wh \in rows : wh.start_time = "09:00:00" /\ wh.end_time = "18:00:00"

\* The index of the first row of userMappings with this user_id.
FirstIndexOf(userMappings, user_id) ==
    CHOOSE i \in 1..Len(userMappings) :
        /\ userMappings[i].user_id = user_id
        /\ \A j \in 1..(i - 1) : userMappings[j].user_id # user_id

\* C2: the bulk resolvers resolve each binding at the principal level: all
\* self entries of the user if there is one, otherwise all entries of the
\* binding's team, otherwise all entries of its org, otherwise the default
\* 09:00-18:00 on all seven weekdays, tagged with the scope used; with a self
\* entry present, adding or removing a team or org entry does not change the
\* resolved schedule.
C2_PrincipalPriority ==
    BulkCall =>
        \A i \in 1..Len(resolved.results) :
            LET r == resolved.results[i]
                b == [user_id |-> r.user_id, org_id |-> r.org_id,
                      team_id |-> r.team_id]
                selfRows == {wh \in working_hours :
                                wh.type = "self" /\ wh.type_id = r.user_id}
                teamRows == {wh \in working_hours :
                                wh.type = "team" /\ wh.type_id = r.team_id}
                orgRows == {wh \in working_hours :
                                wh.type = "org" /\ wh.type_id = r.org_id}
            IN  /\ b \in Range(user_mappings)
                /\ selfRows # {}
                     => /\ r.type = "self" /\ r.working_hours = selfRows
                        /\ \A t2 \in TeamOrgEdits(working_hours) :
                             LET again ==
                                   IF resolved.kind = "all_bq"
                                   THEN getAllWorkingHoursConfigBQ(user_mappings, t2)
                                   ELSE getAllWorkingHoursConfigAnalytics(
                                            user_mappings, t2)
                             IN  again[i].working_hours = r.working_hours
                /\ (selfRows = {} /\ teamRows # {})
                     => r.type = "team" /\ r.working_hours = teamRows
                /\ (selfRows = {} /\ teamRows = {} /\ orgRows # {})
                     => r.type = "org" /\ r.working_hours = orgRows
                /\ (selfRows = {} /\ teamRows = {} /\ orgRows = {})
                     => r.type = "default" /\ IsDefaultSchedule(r.working_hours)

\* Scenario S5: a bulk call for a user with a self entry while entries of the
\* user's team and org exist as well.
C2_Witness ==
    /\ BulkCall
    /\ \E i \in 1..Len(resolved.results) :
        LET r == resolved.results[i]
        IN  /\ r.type = "self"
            /\ \E wh \in working_hours : wh.type = "team" /\ wh.type_id = r.team_id
            /\ \E wh \in working_hours : wh.type = "org" /\ wh.type_id = r.org_id
            /\ \E wh \in working_hours :
                 wh.type = "team" /\ wh.type_id = r.team_id
                 /\ wh.week_day \notin {x.week_day : x \in r.working_hours}

\* C3: the single-principal resolver applies the priority of the bulk
\* resolver: without self entries it returns the team entries whose type_id is
\* the team_id of the user's binding, and falls back to org and then default
\* only if there are none.
C3_SingleUsesBindingTeam ==
    (/\ resolved # NoCall
     /\ resolved.kind = "single"
     /\ \E i \in 1..Len(user_mappings) :
            /\ user_mappings[i].user_id = resolved.userId
            /\ user_mappings[i].org_id = resolved.orgId)
        => LET i == CHOOSE k \in 1..Len(user_mappings) :
                        /\ user_mappings[k].user_id = resolved.userId
                        /\ user_mappings[k].org_id = resolved.orgId
                        /\ \A j \in 1..(k - 1) :
                             ~(/\ user_mappings[j].user_id = resolved.userId
                               /\ user_mappings[j].org_id = resolved.orgId)
               b == user_mappings[i]
               selfRows == {wh \in working_hours :
                               wh.type = "self" /\ wh.type_id = b.user_id}
               teamRows == {wh \in working_hours :
                               wh.type = "team" /\ wh.type_id = b.team_id}
               orgRows == {wh \in working_hours :
                              wh.type = "org" /\ wh.type_id = b.org_id}
               c == resolved.config
           IN  selfRows = {}
                 => /\ teamRows # {}
                      => c.source = "team" /\ c.workingHours = teamRows
                    /\ (teamRows = {} /\ orgRows # {})
                      => c.source = "org" /\ c.workingHours = orgRows
                    /\ (teamRows = {} /\ orgRows = {})
                      => c.source = "default"

\* C4: both bulk resolvers return at most one result per user_id, computed
\* from the first row of userMappings with that user_id.
C4_OneResultPerUser ==
    BulkCall =>
        /\ \A i, j \in 1..Len(resolved.results) :
             resolved.results[i].user_id = resolved.results[j].user_id => i = j
        /\ \A i \in 1..Len(resolved.results) :
             LET r == resolved.results[i]
                 f == user_mappings[FirstIndexOf(user_mappings, r.user_id)]
             IN  r.org_id = f.org_id /\ r.team_id = f.team_id

\* ------------------------------------------------------------------
\* Conversation segmentation and the MERGE statements (BigQuery side)
\* ------------------------------------------------------------------
\* message_events holds the events of one chat (one chat_id, one org_id),
\* with distinct message_timestamps, so that ORDER BY message_timestamp and
\* the JavaScript sort give one order.  Each user_id has one
\* agent_phone_number, so a GROUP BY over both groups by user_id.
\* Events of the chat held by message_events, at most this many.
MaxEvents == 4

Users == {1, 2}

\* Instants of scenario S6: Monday 09:00, 09:05, 09:30, 20:00 and Tuesday
\* 10:00 (day 1 is the Monday after the Sunday of second 0).
EventTimes ==
    {SecondsPerDay + HMS(9, 0, 0), SecondsPerDay + HMS(9, 5, 0),
     SecondsPerDay + HMS(9, 30, 0), SecondsPerDay + HMS(20, 0, 0),
     2 * SecondsPerDay + HMS(10, 0, 0)}

Directions == {"INCOMING", "OUTGOING"}

\* SQL NULL of a STRING column.
NULLSTR == "NULL"

\* Rows of the BigQuery working_hours table for Monday to Friday 09:00-18:00
\* of user u, numbered as EXTRACT(DAYOFWEEK) numbers them (2 = Monday).
MonFri(u) ==
    {[user_id |-> u, day_of_week |-> d,
      start_time_utc |-> HMS(9, 0, 0), end_time_utc |-> HMS(18, 0, 0)] : d \in 2..6}

\* Rows for 09:00-18:00 on every day of the week: day_of_week 1..7 whichever
\* weekday each number stands for.
AllWeek(u) ==
    {[user_id |-> u, day_of_week |-> d,
      start_time_utc |-> HMS(9, 0, 0), end_time_utc |-> HMS(18, 0, 0)] : d \in 1..7}

BqTables == {{}, MonFri(1), AllWeek(1)}

\* MAX(CASE WHEN day_of_week = d THEN col END): NULL without such a row.
MaxOrNull(vals) ==
    IF vals = {} THEN NULL ELSE CHOOSE v \in vals : \A x \in vals : x <= v

\* COALESCE(v, TIME(0, 0, 0))
CoalesceTime(v) == IF v = NULL THEN Midnight ELSE v

\* The 14 arguments a merge passes for the events of user u: the row of the
\* user_working_hours CTE that the LEFT JOIN finds (all NULL without one),
\* each column through COALESCE.  dayOf[k] is the day_of_week number the CTE
\* reads for the k-th weekday, Monday first.
UdfArguments(table, u, dayOf) ==
    LET start(k) == CoalesceTime(MaxOrNull(
                        {r.start_time_utc : r \in {x \in table :
                            x.user_id = u /\ x.day_of_week = dayOf[k]}}))
        end(k) == CoalesceTime(MaxOrNull(
                        {r.end_time_utc : r \in {x \in table :
                            x.user_id = u /\ x.day_of_week = dayOf[k]}}))
    IN  [monday_start |-> start(1), monday_end |-> end(1),
         tuesday_start |-> start(2), tuesday_end |-> end(2),
         wednesday_start |-> start(3), wednesday_end |-> end(3),
         thursday_start |-> start(4), thursday_end |-> end(4),
         friday_start |-> start(5), friday_end |-> end(5),
         saturday_start |-> start(6), saturday_end |-> end(6),
         sunday_start |-> start(7), sunday_end |-> end(7)]

\* user_working_hours of the FIXED lifetime merge and of the daily merge:
\* 2 = Monday .. 7 = Saturday, 1 = Sunday.
DayOfWeekFixed == <<2, 3, 4, 5, 6, 7, 1>>

\* user_working_hours of the first lifetime merge: 1 = Monday .. 7 = Sunday.
DayOfWeekFirst == <<1, 2, 3, 4, 5, 6, 7>>

\* The row LAG(..., 1) OVER (PARTITION BY ... ORDER BY message_timestamp)
\* reads for row i: the row before it in its partition, 0 if there is none.
\* The partition is the chat, or (user_id, chat_id) when byUser.
LagIndex(events, i, byUser) ==
    LET before == {j \in 1..(i - 1) :
                      (~byUser) \/ events[j].user_id = events[i].user_id}
    IN  IF before = {} THEN 0 ELSE CHOOSE j \in before : \A k \in before : k <= j

\* events_with_lag / events_with_daily_lag
events_with_lag(events, byUser) ==
    [i \in 1..Len(events) |->
        LET j == LagIndex(events, i, byUser)
        IN  [user_id |-> events[i].user_id,
             direction |-> events[i].direction,
             message_timestamp |-> events[i].message_timestamp,
             activity_date |-> DATE(events[i].message_timestamp, 0),
             prev_direction |-> IF j = 0 THEN NULLSTR ELSE events[j].direction,
             prev_message_timestamp |->
                 IF j = 0 THEN NULL ELSE events[j].message_timestamp]]

\* response_events: the rows with direction OUTGOING and prev_direction
\* INCOMING (the daily merge also asks for a prev_message_timestamp).
response_events(events, byUser) ==
    LET lagged == events_with_lag(events, byUser)
    IN  {[user_id |-> lagged[i].user_id,
          activity_date |-> lagged[i].activity_date,
          message_timestamp |-> lagged[i].message_timestamp,
          prev_message_timestamp |-> lagged[i].prev_message_timestamp] :
            i \in {k \in 1..Len(events) :
                      /\ lagged[k].direction = "OUTGOING"
                      /\ lagged[k].prev_direction = "INCOMING"
                      /\ (byUser => lagged[k].prev_message_timestamp # NULL)}}

\* response_with_working_seconds: the UDF applied to each response event with
\* the working hours of the event's user.
WithWorkingSeconds(res, table, variant, dayOf) ==
    {[user_id |-> re.user_id,
      activity_date |-> re.activity_date,
      message_timestamp |-> re.message_timestamp,
      working_seconds |->
          Udf(variant, re.prev_message_timestamp, re.message_timestamp,
              UdfArguments(table, re.user_id, dayOf))] : re \in res}

RECURSIVE SumWorkingSeconds(_)
SumWorkingSeconds(rows) ==
    IF rows = {} THEN 0
    ELSE LET r == CHOOSE x \in rows : TRUE
         IN  r.working_seconds + SumWorkingSeconds(rows \ {r})

\* AVG over rows: the pair (sum, n) standing for sum / n, and NULL (n = 0)
\* over no row.
NullAvg == [sum |-> 0, n |-> 0]

AVG(rows) ==
    IF rows = {} THEN NullAvg
    ELSE [sum |-> SumWorkingSeconds(rows), n |-> Cardinality(rows)]

\* AVG(CASE WHEN working_seconds > 0 THEN working_seconds END)
AvgPositive(rows) == AVG({r \in rows : r.working_seconds > 0})

\* COALESCE(avg, 0)
CoalesceAvg(a) == IF a = NullAvg THEN [sum |-> 0, n |-> 1] ELSE a

UsersOf(events) == {events[i].user_id : i \in 1..Len(events)}

DatesOf(events, u) ==
    {DATE(events[i].message_timestamp, 0) :
        i \in {k \in 1..Len(events) : events[k].user_id = u}}

\* The rows of events_with_lag that one GROUP BY key collects, in
\* message_timestamp order: those of user u, on activity_date d when d is
\* not NULL.
GroupRows(events, u, d, byUser) ==
    SelectSeq(events_with_lag(events, byUser),
              LAMBDA r : r.user_id = u /\ (d = NULL \/ r.activity_date = d))

\* MIN(IF(direction = dir, message_timestamp, NULL))
first_message_ts(g, dir) ==
    LET stamps == {g[i].message_timestamp :
                      i \in {k \in 1..Len(g) : g[k].direction = dir}}
    IN  IF stamps = {} THEN NULL
        ELSE CHOOSE v \in stamps : \A x \in stamps : v <= x

\* ARRAY_AGG(STRUCT(direction) ORDER BY message_timestamp ASC LIMIT 1)
starter_direction(g) == g[1].direction

\* ARRAY_AGG(STRUCT(direction) ORDER BY message_timestamp DESC LIMIT 1)
last_message_direction(g) == g[Len(g)].direction

\* COUNTIF(direction = 'OUTGOING' AND prev_direction = 'OUTGOING')
follow_up_count(g) ==
    Cardinality({i \in 1..Len(g) :
                    g[i].direction = "OUTGOING" /\ g[i].prev_direction = "OUTGOING"})

\* time_to_first_response_seconds of the daily merge: the scalar subquery
\* over user_working_hours has no row, hence the value NULL, for a user
\* without rows in working_hours.
time_to_first_response_seconds(g, table, variant, u) ==
    LET fc == first_message_ts(g, "INCOMING")
        fa == first_message_ts(g, "OUTGOING")
    IN  IF fc # NULL /\ fa # NULL /\ fa > fc
        THEN IF {x \in table : x.user_id = u} = {}
             THEN NULL
             ELSE Udf(variant, fc, fa, UdfArguments(table, u, DayOfWeekFixed))
        ELSE NULL

\* COUNTIF(direction = dir)
message_count(g, dir) == Cardinality({i \in 1..Len(g) : g[i].direction = dir})

\* IF(direction = 'OUTGOING', 'employee', 'contact')
EmployeeOrContact(direction) ==
    IF direction = "OUTGOING" THEN "employee" ELSE "contact"

\* The columns both lifetime merges select from one row of chat_aggregates:
\* the analytics STRUCT, conversation_starter, last_message_from, created_at
\* and updated_at.
LifetimeColumns(g) ==
    [messages_sent |-> message_count(g, "OUTGOING"),
     messages_received |-> message_count(g, "INCOMING"),
     total_messages |-> message_count(g, "OUTGOING") + message_count(g, "INCOMING"),
     number_of_follow_ups |-> follow_up_count(g),
     conversation_starter |-> EmployeeOrContact(starter_direction(g)),
     last_message_from |-> EmployeeOrContact(last_message_direction(g)),
     created_at |-> g[1].message_timestamp,
     updated_at |-> g[Len(g)].message_timestamp]

\* USING subquery of conversation_summary_merge_FIXED.sql: one row per
\* (chat_id, user_id, org_id, agent_phone_number) of chat_aggregates, with
\* COALESCE(rt.average_response_time, 0) from response_time_by_chat.
LifetimeFixedSource(events, table, variant) ==
    LET ws == WithWorkingSeconds(response_events(events, FALSE), table, variant,
                                 DayOfWeekFixed)
    IN  {[uid |-> u,
          analytics |-> LifetimeColumns(GroupRows(events, u, NULL, FALSE)),
          average_response_time |->
              CoalesceAvg(AvgPositive({r \in ws : r.user_id = u}))] :
            u \in UsersOf(events)}

\* USING subquery of conversation_summary_merge.sql: one row per (chat_id,
\* agent_phone_number) of chat_aggregates, with the AVG of the UDF over every
\* response event of the chat.
LifetimeSource(events, table, variant) ==
    LET ws == WithWorkingSeconds(response_events(events, FALSE), table, variant,
                                 DayOfWeekFirst)
    IN  {[uid |-> u,
          analytics |-> LifetimeColumns(GroupRows(events, u, NULL, FALSE)),
          average_response_time |-> AVG(ws)] : u \in UsersOf(events)}

\* USING subquery of the daily_performance_summary merge: one row per
\* (activity_date, user_id, org_id, chat_id, agent_phone_number).
DailySource(events, table, variant) ==
    LET ws == WithWorkingSeconds(response_events(events, TRUE), table, variant,
                                 DayOfWeekFixed)
    IN  UNION {{[activity_date |-> d, user_id |-> u,
                 conversation_starter_of_day |->
                     IF starter_direction(GroupRows(events, u, d, TRUE)) = "OUTGOING"
                     THEN "agent" ELSE "contact",
                 agent_message_count |->
                     message_count(GroupRows(events, u, d, TRUE), "OUTGOING"),
                 contact_message_count |->
                     message_count(GroupRows(events, u, d, TRUE), "INCOMING"),
                 first_contact_message_ts |->
                     first_message_ts(GroupRows(events, u, d, TRUE), "INCOMING"),
                 first_agent_message_ts |->
                     first_message_ts(GroupRows(events, u, d, TRUE), "OUTGOING"),
                 avg_agent_response_time_seconds |->
                     AvgPositive({r \in ws :
                                     r.user_id = u /\ r.activity_date = d}),
                 time_to_first_response_seconds |->
                     time_to_first_response_seconds(
                         GroupRows(events, u, d, TRUE), table, variant, u)] :
                    d \in DatesOf(events, u)} : u \in UsersOf(events)}

\* TIME('HH:MM:SS') of the time strings the MySQL side holds.
TimeOfString(str) ==
    CASE str = "09:00:00" -> HMS(9, 0, 0)
      [] str = "10:00:00" -> HMS(10, 0, 0)
      [] str = "12:00:00" -> HMS(12, 0, 0)
      [] str = "18:00:00" -> HMS(18, 0, 0)

\* LOWER(FORMAT_DATE('%A', DATE(message_timestamp)))
WeekDayName(ts) == WeekDays[((DATE(ts, 0) + 6) % 7) + 1]

\* USING subquery of the query generateSimpleMergeQuery builds: one row per
\* (user_id, org_id, date, sender_number); a user's events carry one
\* sender_number.
SimpleSource(events) ==
    UNION {{LET g == GroupRows(events, u, d, TRUE)
            IN  [user_id |-> u, date |-> d,
                 messages_sent |-> message_count(g, "OUTGOING"),
                 messages_received |-> message_count(g, "INCOMING"),
                 total_messages |-> Len(g),
                 number_of_follow_ups |-> 0,
                 conversation_starter |-> "INCOMING",
                 last_message_from |-> "OUTGOING",
                 earliest_message |-> g[1].message_timestamp,
                 latest_message |-> g[Len(g)].message_timestamp,
                 average_response_time |-> [sum |-> 0, n |-> 1]] :
                d \in DatesOf(events, u)} : u \in UsersOf(events)}

\* USING subquery of the query generateMergeQueryWithWorkingHours builds
\* from workingHoursConfig.workingHours: message_analytics LEFT JOIN
\* response_time_calc.
WorkingHoursQuerySource(events, workingHours) ==
    UNION {{LET g == GroupRows(events, u, d, TRUE)
                inHours == {i \in 1..Len(g) :
                              /\ g[i].direction = "OUTGOING"
                              /\ \E whc \in workingHours :
                                    /\ whc.week_day = WeekDayName(g[i].message_timestamp)
                                    /\ TIME(g[i].message_timestamp, 0)
                                          >= TimeOfString(whc.start_time)
                                    /\ TIME(g[i].message_timestamp, 0)
                                          <= TimeOfString(whc.end_time)}
            IN  [user_id |-> u, date |-> d,
                 messages_sent |-> message_count(g, "OUTGOING"),
                 messages_received |-> message_count(g, "INCOMING"),
                 total_messages |-> Len(g),
                 number_of_follow_ups |-> message_count(g, "OUTGOING"),
                 conversation_starter |-> g[1].direction,
                 last_message_from |-> g[Len(g)].direction,
                 earliest_message |-> g[1].message_timestamp,
                 latest_message |-> g[Len(g)].message_timestamp,
                 average_response_time |->
                     CoalesceAvg([sum |-> 300 * Cardinality(inHours),
                                  n |-> Cardinality(inHours)])] :
                d \in DatesOf(events, u)} : u \in UsersOf(events)}

\* ------------------------------------------------------------------
\* calculateResponseTimes / calculateResponseTimesWithWorkingHoursLogging
\* ------------------------------------------------------------------
\* messageGroups: the messages of one (user_id, org_id, chat_id, date) key,
\* sorted by message_timestamp.
MessageGroup(messages, u, d) ==
    SelectSeq(messages,
              LAMBDA m : m.user_id = u /\ DATE(m.message_timestamp, 0) = d)

\* The loop over k: is there an OUTGOING message strictly between j and i?
hasOutgoingBetween(g, j, i) ==
    \E k \in (j + 1)..(i - 1) : g[k].direction = "OUTGOING"

\* The loop over j without the hasOutgoingBetween test: the nearest INCOMING
\* message before i, whatever lies between.
RECURSIVE PairedIncomingAnyGap(_, _, _)
PairedIncomingAnyGap(g, i, j) ==
    IF j < 1 THEN 0
    ELSE IF g[j].direction = "INCOMING" THEN j
    ELSE PairedIncomingAnyGap(g, i, j - 1)

\* The loop over j = i - 1 down to 0 for the OUTGOING message at i: the
\* index of the INCOMING message it is paired with, 0 if the loop ends
\* without a pair.
RECURSIVE PairedIncoming(_, _, _)
PairedIncoming(g, i, j) ==
    IF j < 1 THEN 0
    ELSE IF g[j].direction = "INCOMING" /\ ~hasOutgoingBetween(g, j, i) THEN j
    ELSE PairedIncoming(g, i, j - 1)

\* The response pairs <<j, i>> the loop over i finds in one group.
GroupPairs(g) ==
    {<<PairedIncoming(g, i, i - 1), i>> :
        i \in {k \in 1..Len(g) :
                  /\ g[k].direction = "OUTGOING"
                  /\ PairedIncoming(g, k, k - 1) # 0}}

\* The pairs of every group of messageGroups.
AllGroupPairs(messages) ==
    UNION {{[user_id |-> u, date |-> d,
             pairs |-> GroupPairs(MessageGroup(messages, u, d))] :
                d \in DatesOf(messages, u)} : u \in UsersOf(messages)}

\* ------------------------------------------------------------------
\* State machine 3: events arrive, merges and calculations run
\* ------------------------------------------------------------------
InitSeg ==
    /\ message_events = <<>>
    /\ bq_working_hours \in BqTables
    /\ deployed_udf \in Variants
    /\ merge_source = NoCall
    /\ UdfIdle
    /\ ResIdle
    /\ RestIdle

LastTimestamp ==
    IF message_events = <<>> THEN 0
    ELSE message_events[Len(message_events)].message_timestamp

\* A message event is ingested (events are append-only and later in time).
IngestEvent ==
    \E u \in Users, dir \in Directions, ts \in EventTimes :
        /\ Len(message_events) < MaxEvents
        /\ ts > LastTimestamp
        /\ message_events' =
             Append(message_events,
                    [user_id |-> u, direction |-> dir, message_timestamp |-> ts])
        /\ merge_source' = NoCall
        /\ UNCHANGED <<bq_working_hours, deployed_udf, udfVars, resVars,
                   tgtVars, storeVars, adjVars, svcVars>>

\* conversation_summary_merge.sql
RunLifetimeMerge ==
    /\ merge_source' =
         [kind |-> "lifetime",
          response_events |-> response_events(message_events, FALSE),
          working_seconds |->
              WithWorkingSeconds(response_events(message_events, FALSE),
                                 bq_working_hours, deployed_udf, DayOfWeekFirst),
          rows |-> LifetimeSource(message_events, bq_working_hours, deployed_udf)]
    /\ UNCHANGED <<message_events, bq_working_hours, deployed_udf, udfVars, resVars,
                   tgtVars, storeVars, adjVars, svcVars>>

\* conversation_summary_merge_FIXED.sql
RunLifetimeMergeFixed ==
    /\ merge_source' =
         [kind |-> "lifetime_fixed",
          response_events |-> response_events(message_events, FALSE),
          working_seconds |->
              WithWorkingSeconds(response_events(message_events, FALSE),
                                 bq_working_hours, deployed_udf, DayOfWeekFixed),
          rows |-> LifetimeFixedSource(message_events, bq_working_hours,
                                       deployed_udf)]
    /\ UNCHANGED <<message_events, bq_working_hours, deployed_udf, udfVars, resVars,
                   tgtVars, storeVars, adjVars, svcVars>>

\* the daily_performance_summary merge
RunDailyMerge ==
    /\ merge_source' =
         [kind |-> "daily",
          response_events |-> response_events(message_events, TRUE),
          working_seconds |->
              WithWorkingSeconds(response_events(message_events, TRUE),
                                 bq_working_hours, deployed_udf, DayOfWeekFixed),
          rows |-> DailySource(message_events, bq_working_hours, deployed_udf)]
    /\ UNCHANGED <<message_events, bq_working_hours, deployed_udf, udfVars, resVars,
                   tgtVars, storeVars, adjVars, svcVars>>

\* AnalyticsService.calculateResponseTimes over the events of the chat
CalculateResponseTimes ==
    /\ merge_source' =
         [kind |-> "js", groups |-> AllGroupPairs(message_events)]
    /\ UNCHANGED <<message_events, bq_working_hours, deployed_udf, udfVars, resVars,
                   tgtVars, storeVars, adjVars, svcVars>>

\* processConversationSummary(userId, orgId, true): the query of
\* generateSimpleMergeQuery
RunSimpleMergeQuery ==
    /\ merge_source' = [kind |-> "simple", rows |-> SimpleSource(message_events)]
    /\ UNCHANGED <<message_events, bq_working_hours, deployed_udf, udfVars, resVars,
                   tgtVars, storeVars, adjVars, svcVars>>

\* processConversationSummary(userId, orgId, false): the query of
\* generateMergeQueryWithWorkingHours
RunWorkingHoursMergeQuery ==
    \E userId \in Ids, orgId \in OrgIds :
        /\ merge_source' =
             [kind |-> "generated",
              rows |-> WorkingHoursQuerySource(
                           message_events,
                           getWorkingHoursConfig(working_hours, user_mappings,
                                                 userId, orgId).workingHours)]
        /\ UNCHANGED <<message_events, bq_working_hours, deployed_udf, udfVars,
                       resVars,
                   tgtVars, storeVars, adjVars, svcVars>>

NextSeg ==
    \/ IngestEvent
    \/ RunSimpleMergeQuery
    \/ RunWorkingHoursMergeQuery
    \/ RunLifetimeMerge
    \/ RunLifetimeMergeFixed
    \/ RunDailyMerge
    \/ CalculateResponseTimes

SpecSeg == InitSeg /\ [][NextSeg]_vars

\* ------------------------------------------------------------------
\* Claims about segmentation and averaging (checked under SpecSeg)
\* ------------------------------------------------------------------
\* The positions i > 0 of an ordered event sequence where event[i-1] is
\* INCOMING and event[i] is OUTGOING.
Adjacent(P) ==
    {i \in 2..Len(P) :
        P[i - 1].direction = "INCOMING" /\ P[i].direction = "OUTGOING"}

\* Those positions as (prev_message_timestamp, message_timestamp) pairs.
AdjacentStamps(P) ==
    {<<P[i - 1].message_timestamp, P[i].message_timestamp>> : i \in Adjacent(P)}

EventsOfUser(u) == SelectSeq(message_events, LAMBDA e : e.user_id = u)

Merged ==
    merge_source # NoCall
    /\ merge_source.kind \in {"lifetime", "lifetime_fixed", "daily"}

\* C9: for the ordered event sequence of every partition (the chat for the
\* lifetime merges, the user's events of the chat for the daily merge, the
\* (user, date) group for calculateResponseTimes) the derived response pairs
\* are exactly the positions where event[i-1] is INCOMING and event[i] is
\* OUTGOING.
C9_PairsAreAdjacencies ==
    /\ (merge_source # NoCall
        /\ merge_source.kind \in {"lifetime", "lifetime_fixed"})
          => {<<re.prev_message_timestamp, re.message_timestamp>> :
                 re \in merge_source.response_events}
               = AdjacentStamps(message_events)
    /\ (merge_source # NoCall /\ merge_source.kind = "daily")
          => \A u \in Users :
               {<<re.prev_message_timestamp, re.message_timestamp>> :
                   re \in {x \in merge_source.response_events : x.user_id = u}}
                 = AdjacentStamps(EventsOfUser(u))
    /\ (merge_source # NoCall /\ merge_source.kind = "js")
          => \A g \in merge_source.groups :
               g.pairs = {<<i - 1, i>> :
                             i \in Adjacent(MessageGroup(message_events,
                                                         g.user_id, g.date))}

\* calculateResponseTimes has run over a group that holds an
\* INCOMING,INCOMING, an INCOMING,OUTGOING and an OUTGOING,OUTGOING adjacency
\* and found exactly one pair in it.
C9_Witness ==
    /\ merge_source # NoCall
    /\ merge_source.kind = "js"
    /\ \E g \in merge_source.groups :
         LET P == MessageGroup(message_events, g.user_id, g.date)
         IN  /\ Cardinality(g.pairs) = 1
             /\ \E i \in 2..Len(P) :
                  P[i - 1].direction = "OUTGOING" /\ P[i].direction = "OUTGOING"
             /\ \E i \in 2..Len(P) :
                  P[i - 1].direction = "INCOMING" /\ P[i].direction = "INCOMING"

\* The average a merge row holds.
RowAverage(row) ==
    IF merge_source.kind = "daily"
    THEN row.avg_agent_response_time_seconds
    ELSE row.average_response_time

\* The working seconds of the response pairs of a merge row's key.
RowWorkingSeconds(row) ==
    IF merge_source.kind = "daily"
    THEN {r \in merge_source.working_seconds :
             r.user_id = row.user_id /\ r.activity_date = row.activity_date}
    ELSE {r \in merge_source.working_seconds : r.user_id = row.uid}

\* C10: in each merge the average written for a key is the mean of the
\* working seconds of the key's response pairs, zero results left out of
\* numerator and denominator, and it is 0, not NULL, when no pair of the key
\* has a non-zero result.
C10_MeanIgnoringZeros ==
    Merged =>
        \A row \in merge_source.rows :
            LET nz == {r \in RowWorkingSeconds(row) : r.working_seconds # 0}
                a == RowAverage(row)
            IN  /\ a # NullAvg
                /\ a.n > 0
                /\ nz = {} => a.sum = 0
                /\ nz # {} => a.sum * Cardinality(nz) = SumWorkingSeconds(nz) * a.n

\* The number EXTRACT(DAYOFWEEK) yields for the k-th weekday, Monday first:
\* 2 = Monday .. 7 = Saturday, 1 = Sunday.
ExtractNumber == [k \in 1..7 |-> (k % 7) + 1]

\* C24: in every merge statement the working seconds of a response event are
\* those of the UDF called with, for each weekday, the window of the
\* working-hours rows whose day_of_week is the number EXTRACT(DAYOFWEEK)
\* yields for that weekday (1 = Sunday, 2 = Monday, ..., 7 = Saturday).
C24_WindowOfSameWeekday ==
    merge_source.kind \in {"lifetime", "lifetime_fixed", "daily"}
        => merge_source.working_seconds =
             WithWorkingSeconds(merge_source.response_events, bq_working_hours,
                                deployed_udf, ExtractNumber)

\* The same statement for the FIXED lifetime merge and the daily merge.
C24_FixedAndDaily ==
    merge_source.kind \in {"lifetime_fixed", "daily"}
        => merge_source.working_seconds =
             WithWorkingSeconds(merge_source.response_events, bq_working_hours,
                                deployed_udf, ExtractNumber)

\* C11: in the daily merge, time_to_first_response_seconds of an aggregate is
\* the UDF applied to (first_contact_message_ts, first_agent_message_ts) with
\* the user's schedule (all-closed for a user without working-hours rows)
\* exactly when first_agent_message_ts > first_contact_message_ts, and NULL
\* exactly when that does not hold.
C11_TimeToFirstResponse ==
    (merge_source # NoCall /\ merge_source.kind = "daily")
        => \A row \in merge_source.rows :
             LET fc == row.first_contact_message_ts
                 fa == row.first_agent_message_ts
                 answered == fc # NULL /\ fa # NULL /\ fa > fc
             IN  /\ answered
                      => row.time_to_first_response_seconds =
                           Udf(deployed_udf, fc, fa,
                               UdfArguments(bq_working_hours, row.user_id,
                                            DayOfWeekFixed))
                 /\ (~answered) => row.time_to_first_response_seconds = NULL

\* The ordered events of the key of a merge row: those of the row's user, on
\* the row's date for the merges that aggregate by date.
RowEvents(row) ==
    CASE merge_source.kind \in {"lifetime", "lifetime_fixed"} ->
             EventsOfUser(row.uid)
      [] merge_source.kind = "daily" ->
             MessageGroup(message_events, row.user_id, row.activity_date)
      [] OTHER -> MessageGroup(message_events, row.user_id, row.date)

\* The starter a merge row holds.
RowStarter(row) ==
    CASE merge_source.kind \in {"lifetime", "lifetime_fixed"} ->
             row.analytics.conversation_starter
      [] merge_source.kind = "daily" -> row.conversation_starter_of_day
      [] OTHER -> row.conversation_starter

\* C14: every merge writes conversation_starter "employee" when the first
\* event of the row's partition is OUTGOING and "contact" otherwise, and
\* last_message_from likewise from the last event: the lifetime merges, the
\* daily merge (conversation_starter_of_day) and the two generated queries.
C14_StarterAndLast ==
    (merge_source # NoCall
     /\ merge_source.kind \in {"lifetime", "lifetime_fixed", "daily", "simple",
                                "generated"})
        => \A row \in merge_source.rows :
             LET P == RowEvents(row)
             IN  /\ RowStarter(row) = EmployeeOrContact(P[1].direction)
                 /\ merge_source.kind \in {"lifetime", "lifetime_fixed"}
                      => row.analytics.last_message_from =
                           EmployeeOrContact(P[Len(P)].direction)
                 /\ merge_source.kind \in {"simple", "generated"}
                      => row.last_message_from =
                           EmployeeOrContact(P[Len(P)].direction)

\* The adjacent (OUTGOING, OUTGOING) pairs of an ordered event sequence.
FollowUps(P) ==
    {i \in 2..Len(P) :
        P[i - 1].direction = "OUTGOING" /\ P[i].direction = "OUTGOING"}

\* C15: number_of_follow_ups of an aggregate row is the number of adjacent
\* (OUTGOING, OUTGOING) pairs of the row's own ordered events, whatever the
\* other users of the chat sent, in the lifetime merges and in the query of
\* generateMergeQueryWithWorkingHours.
C15_FollowUps ==
    (merge_source # NoCall
     /\ merge_source.kind \in {"lifetime", "lifetime_fixed", "generated"})
        => \A row \in merge_source.rows :
             LET n == IF merge_source.kind = "generated"
                      THEN row.number_of_follow_ups
                      ELSE row.analytics.number_of_follow_ups
             IN  n = Cardinality(FollowUps(RowEvents(row)))

\* ------------------------------------------------------------------
\* State machine 4: the MERGE statements applied to their targets
\* ------------------------------------------------------------------
\* Events ingested and statements executed in one behaviour, at most.
MaxBatch == 2

MaxStatements == 2

\* Instants of the events: a subset of EventTimes.
BatchTimes ==
    {SecondsPerDay + HMS(9, 0, 0), SecondsPerDay + HMS(9, 5, 0),
     2 * SecondsPerDay + HMS(10, 0, 0)}

\* CURRENT_TIMESTAMP() of the first statement: after every event.
FirstRun == 3 * SecondsPerDay

\* message_events.agent_phone_number of the events of a user: the events of
\* user 2 were ingested without it.
agent_phone_number(u) == IF u = 2 THEN NULLSTR ELSE "agent"

\* a = b of SQL in an ON clause: not true when either side is NULL.
SqlEquals(a, b) == a # NULLSTR /\ b # NULLSTR /\ a = b

\* ON T.uid = S.uid AND T.org_id = S.org_id AND T.chat_id = S.chat_id AND
\* T.phone_number = S.phone_number (one chat, one org, one phone per user).
\* A table is held as the set of its distinct rows.
LifetimeMatches(t, s) ==
    t.uid = s.uid /\ SqlEquals(agent_phone_number(t.uid), agent_phone_number(s.uid))

\* WHEN MATCHED THEN UPDATE SET of the lifetime merges: every selected
\* column but created_at, updated_at = S.updated_at included.
LifetimeUpdate(t, s) == [s EXCEPT !.analytics.created_at = t.analytics.created_at]

\* WHEN NOT MATCHED THEN INSERT of the lifetime merges: S.created_at and
\* S.updated_at as selected.
LifetimeInsert(s) == s

\* MERGE INTO conversation_summary USING source.
MergeConversationSummary(target, source) ==
    {IF \E s \in source : LifetimeMatches(t, s)
     THEN LifetimeUpdate(t, CHOOSE s \in source : LifetimeMatches(t, s))
     ELSE t : t \in target}
    \cup {LifetimeInsert(s) :
             s \in {x \in source : ~\E t \in target : LifetimeMatches(t, x)}}

\* The columns of daily_performance_summary a statement writes from S.
DailyRow(s, created_at, updated_at) ==
    [activity_date |-> s.activity_date, user_id |-> s.user_id,
     conversation_starter_of_day |-> s.conversation_starter_of_day,
     agent_message_count |-> s.agent_message_count,
     contact_message_count |-> s.contact_message_count,
     avg_agent_response_time_seconds |-> s.avg_agent_response_time_seconds,
     time_to_first_response_seconds |-> s.time_to_first_response_seconds,
     created_at |-> created_at, updated_at |-> updated_at]

\* ON T.activity_date = S.activity_date AND T.user_id = S.user_id AND ...
\* AND T.user_number = S.agent_phone_number
DailyMatches(t, s) ==
    /\ t.activity_date = s.activity_date
    /\ t.user_id = s.user_id
    /\ SqlEquals(agent_phone_number(t.user_id), agent_phone_number(s.user_id))

\* MERGE INTO daily_performance_summary USING source, at CURRENT_TIMESTAMP()
\* = now: UPDATE SET ... T.updated_at = now; INSERT ... (now, now).
MergeDailyPerformanceSummary(target, source, now) ==
    {IF \E s \in source : DailyMatches(t, s)
     THEN DailyRow(CHOOSE s \in source : DailyMatches(t, s), t.created_at, now)
     ELSE t : t \in target}
    \cup {DailyRow(s, now, now) :
             s \in {x \in source : ~\E t \in target : DailyMatches(t, x)}}

InitMerge ==
    /\ message_events = <<>>
    /\ bq_working_hours = AllWeek(1)
    /\ deployed_udf = "utc"
    /\ merge_source = NoCall
    /\ conversation_summary = {}
    /\ daily_performance_summary = {}
    /\ current_timestamp = FirstRun
    /\ merge_log = NoCall
    /\ UdfIdle
    /\ ResIdle
    /\ StoreIdle
    /\ AdjIdle
    /\ SvcIdle

\* A message event is ingested between two statements.
BatchIngestEvent ==
    \E u \in Users, dir \in Directions, ts \in BatchTimes :
        /\ Len(message_events) < MaxBatch
        /\ ts > LastTimestamp
        /\ message_events' =
             Append(message_events,
                    [user_id |-> u, direction |-> dir, message_timestamp |-> ts])
        /\ UNCHANGED <<bq_working_hours, deployed_udf, merge_source, udfVars,
                       resVars, tgtVars, storeVars, adjVars, svcVars>>

\* What merge_log records of a statement: the target before it, the rows of
\* its USING subquery, its CURRENT_TIMESTAMP(), and whether the previous
\* statement was the same MERGE over the same events.
LogOf(kind, before, source) ==
    [kind |-> kind, before |-> before, source |-> source,
     run_at |-> current_timestamp, events |-> message_events,
     repeat |-> /\ merge_log # NoCall
                /\ merge_log.kind = kind
                /\ merge_log.events = message_events]

\* conversation_summary_merge.sql, executed
ExecuteLifetimeMerge ==
    /\ current_timestamp < FirstRun + MaxStatements
    /\ conversation_summary' =
         MergeConversationSummary(
             conversation_summary,
             LifetimeSource(message_events, bq_working_hours, deployed_udf))
    /\ merge_log' =
         LogOf("lifetime", conversation_summary,
               LifetimeSource(message_events, bq_working_hours, deployed_udf))
    /\ current_timestamp' = current_timestamp + 1
    /\ UNCHANGED <<daily_performance_summary, udfVars, resVars, segVars,
                   storeVars, adjVars, svcVars>>

\* conversation_summary_merge_FIXED.sql, executed
ExecuteLifetimeMergeFixed ==
    /\ current_timestamp < FirstRun + MaxStatements
    /\ conversation_summary' =
         MergeConversationSummary(
             conversation_summary,
             LifetimeFixedSource(message_events, bq_working_hours, deployed_udf))
    /\ merge_log' =
         LogOf("lifetime_fixed", conversation_summary,
               LifetimeFixedSource(message_events, bq_working_hours, deployed_udf))
    /\ current_timestamp' = current_timestamp + 1
    /\ UNCHANGED <<daily_performance_summary, udfVars, resVars, segVars,
                   storeVars, adjVars, svcVars>>

\* the daily_performance_summary merge, executed
ExecuteDailyMerge ==
    /\ current_timestamp < FirstRun + MaxStatements
    /\ daily_performance_summary' =
         MergeDailyPerformanceSummary(
             daily_performance_summary,
             DailySource(message_events, bq_working_hours, deployed_udf),
             current_timestamp)
    /\ merge_log' =
         LogOf("daily", daily_performance_summary,
               DailySource(message_events, bq_working_hours, deployed_udf))
    /\ current_timestamp' = current_timestamp + 1
    /\ UNCHANGED <<conversation_summary, udfVars, resVars, segVars,
                   storeVars, adjVars, svcVars>>

NextMerge ==
    \/ BatchIngestEvent
    \/ ExecuteLifetimeMerge
    \/ ExecuteLifetimeMergeFixed
    \/ ExecuteDailyMerge

SpecMerge == InitMerge /\ [][NextMerge]_vars

\* ------------------------------------------------------------------
\* Claims about the MERGE statements (checked under SpecMerge)
\* ------------------------------------------------------------------
Executed == merge_log # NoCall

\* The target table of the last statement, as it is now.
TargetNow ==
    IF merge_log.kind = "daily" THEN daily_performance_summary
    ELSE conversation_summary

RowMatches(t, s) ==
    IF merge_log.kind = "daily" THEN DailyMatches(t, s) ELSE LifetimeMatches(t, s)

RowCreatedAt(t) ==
    IF merge_log.kind = "daily" THEN t.created_at ELSE t.analytics.created_at

RowUpdatedAt(t) ==
    IF merge_log.kind = "daily" THEN t.updated_at ELSE t.analytics.updated_at

\* The analytics columns of a target row or of a source row.
AnalyticsColumns(r) ==
    IF merge_log.kind = "daily"
    THEN <<r.conversation_starter_of_day, r.agent_message_count,
           r.contact_message_count, r.avg_agent_response_time_seconds,
           r.time_to_first_response_seconds>>
    ELSE <<r.analytics.messages_sent, r.analytics.messages_received,
           r.analytics.total_messages, r.analytics.number_of_follow_ups,
           r.analytics.conversation_starter, r.analytics.last_message_from,
           r.average_response_time>>

\* C12: a merge executed a second time over the same events, at a later
\* time, leaves its target table as the first execution left it, in every
\* column, created_at and updated_at included.
C12_Idempotent ==
    (Executed /\ merge_log.repeat) => TargetNow = merge_log.before

\* A lifetime merge has been executed twice over the same, non-empty events.
C12_Witness ==
    /\ Executed
    /\ merge_log.repeat
    /\ merge_log.kind = "lifetime_fixed"
    /\ merge_log.before # {}

\* C13: for every row of the USING subquery, a matching target row gets the
\* analytics columns of the source row and keeps its created_at; without a
\* matching row one is inserted whose created_at is the conversation start
\* (lifetime) or the time of the run (daily) and whose updated_at is the time
\* of the run; target rows that match no source row stay as they were.
C13_MatchedAndInserted ==
    Executed =>
        /\ \A s \in merge_log.source :
             \E r \in TargetNow :
                /\ RowMatches(r, s)
                /\ AnalyticsColumns(r) = AnalyticsColumns(s)
                /\ \A t \in merge_log.before :
                      RowMatches(t, s) => RowCreatedAt(r) = RowCreatedAt(t)
                /\ (~\E t \in merge_log.before : RowMatches(t, s))
                      => /\ RowUpdatedAt(r) = merge_log.run_at
                         /\ RowCreatedAt(r) =
                              IF merge_log.kind = "daily"
                              THEN merge_log.run_at
                              ELSE EventsOfUser(s.uid)[1].message_timestamp
        /\ \A t \in merge_log.before :
             (~\E s \in merge_log.source : RowMatches(t, s)) => t \in TargetNow

\* C29: after any sequence of runs the target tables hold at most one row
\* per source key, also for the rows whose agent_phone_number is NULL: a
\* second run matches the row the first one inserted.
C29_OneRowPerKey ==
    /\ \A t1 \in conversation_summary, t2 \in conversation_summary :
         t1.uid = t2.uid => t1 = t2
    /\ \A t1 \in daily_performance_summary, t2 \in daily_performance_summary :
         (t1.activity_date = t2.activity_date /\ t1.user_id = t2.user_id)
            => t1 = t2

\* The same statement for the rows whose agent_phone_number is not NULL.
C29_OneRowPerNonNullKey ==
    /\ \A t1 \in conversation_summary, t2 \in conversation_summary :
         (t1.uid = t2.uid /\ agent_phone_number(t1.uid) # NULLSTR) => t1 = t2
    /\ \A t1 \in daily_performance_summary, t2 \in daily_performance_summary :
         (/\ t1.activity_date = t2.activity_date
          /\ t1.user_id = t2.user_id
          /\ agent_phone_number(t1.user_id) # NULLSTR)
            => t1 = t2

\* The daily merge ran twice over the same events of the user without
\* agent_phone_number.
C29_SecondRun ==
    /\ Executed
    /\ merge_log.kind = "daily"
    /\ merge_log.repeat
    /\ \E s \in merge_log.source : agent_phone_number(s.user_id) = NULLSTR

\* ------------------------------------------------------------------
\* State machine 5: calculateResponseTimes and the LAG derivation over the
\* rows the store returns
\* ------------------------------------------------------------------
\* Rows of message_events in one behaviour, at most.
MaxStored == 4

\* The <<user_id, chat_id>> of the conversations (one org).
Conversations == {<<1, 1>>, <<1, 2>>, <<2, 1>>}

\* sender_number of a row: the agent's number on an OUTGOING message, the
\* contact's number on an INCOMING one.
sender_number(e) ==
    IF e.direction = "OUTGOING" THEN <<"agent", e.user_id>>
    ELSE <<"contact", e.chat_id>>

\* The sequences that hold every row of S once, in ascending order of key;
\* rows with equal keys come in every order.
RECURSIVE OrdersBy(_, _)
OrdersBy(S, key) ==
    IF S = {} THEN {<<>>}
    ELSE UNION {{<<e>> \o o : o \in OrdersBy(S \ {e}, key)} :
                  e \in {x \in S : \A y \in S : key[x] <= key[y]}}

\* ORDER BY user_id, org_id, chat_id, message_timestamp ASC
QueryOrder(S) ==
    [e \in S |-> (e.user_id * 10 + e.chat_id) * 7 * SecondsPerDay
                    + e.message_timestamp]

\* ORDER BY message_timestamp
TimestampOrder(S) == [e \in S |-> e.message_timestamp]

\* ORDER BY message_timestamp, event_id: no two rows with equal keys.
EventIdOrder(S) ==
    [e \in S |-> e.message_timestamp * (Cardinality(S) + 1) + e.event_id]

\* The key of messageGroups without the date.
KeyOfNoDate(msg) == <<msg.user_id, msg.chat_id, 0>>

\* key = `${msg.user_id}_${msg.org_id}_${msg.chat_id}_${dateStr}`
KeyOf(msg) == <<msg.user_id, msg.chat_id, DATE(msg.message_timestamp, 0)>>

\* The keys of a Map in insertion order.
RECURSIVE FirstSeen(_)
FirstSeen(keys) ==
    IF keys = <<>> THEN <<>>
    ELSE LET r == FirstSeen(SubSeq(keys, 1, Len(keys) - 1))
             k == keys[Len(keys)]
         IN  IF \E i \in 1..Len(r) : r[i] = k THEN r ELSE Append(r, k)

\* groupMessages.sort((a, b) => a.message_timestamp - b.message_timestamp):
\* a stable sort.
RECURSIVE SortByTimestamp(_)
SortByTimestamp(g) ==
    IF Len(g) <= 1 THEN g
    ELSE LET init == SortByTimestamp(SubSeq(g, 1, Len(g) - 1))
             e == g[Len(g)]
             n == Cardinality({i \in 1..Len(init) :
                                 init[i].message_timestamp <= e.message_timestamp})
         IN  SubSeq(init, 1, n) \o <<e>> \o SubSeq(init, n + 1, Len(init))

\* messageGroups.get(key), sorted
messageGroups(messages, key) ==
    SortByTimestamp(SelectSeq(messages, LAMBDA m : KeyOf(m) = key))

\* responseTimesForGroup: one entry per pair the loops find in the group,
\* with the messages the group holds between the two.
responseTimesForGroup(messages, key) ==
    LET g == messageGroups(messages, key)
    IN  {[key |-> key, incoming |-> g[p[1]], outgoing |-> g[p[2]],
          between |-> {g[k] : k \in (p[1] + 1)..(p[2] - 1)},
          phone_number |-> sender_number(g[p[2]]),
          response_time |-> g[p[2]].message_timestamp - g[p[1]].message_timestamp] :
            p \in GroupPairs(g)}

RECURSIVE SumResponseTime(_)
SumResponseTime(P) ==
    IF P = {} THEN 0
    ELSE LET p == CHOOSE x \in P : TRUE
         IN  p.response_time + SumResponseTime(P \ {p})

\* Math.round(sum / length) of non-negative numbers
MathRound(sum, n) == (2 * sum + n) \div (2 * n)

\* The record the group sets in responseTimes, under its resultKey;
\* responseTimesForGroup[0] is the pair of the earliest OUTGOING message.
GroupResult(messages, key) ==
    LET P == responseTimesForGroup(messages, key)
        g == messageGroups(messages, key)
        first == CHOOSE p \in P :
                    \A q \in P :
                       (CHOOSE i \in 1..Len(g) : g[i] = p.outgoing)
                         <= (CHOOSE i \in 1..Len(g) : g[i] = q.outgoing)
    IN  [resultKey |-> <<key[1], first.phone_number, key[3]>>,
         user_id |-> key[1], phone_number |-> first.phone_number,
         date |-> key[3],
         avg_response_time |-> MathRound(SumResponseTime(P), Cardinality(P))]

\* messageGroups.forEach: the Map responseTimes after the first n groups.
RECURSIVE SetResults(_, _, _)
SetResults(messages, keys, n) ==
    IF n = 0 THEN {}
    ELSE LET prev == SetResults(messages, keys, n - 1)
         IN  IF responseTimesForGroup(messages, keys[n]) = {} THEN prev
             ELSE LET r == GroupResult(messages, keys[n])
                  IN  {x \in prev : x.resultKey # r.resultKey} \cup {r}

\* calculateResponseTimes(messages): the pairs counted and the records
\* returned.
calculateResponseTimes(messages) ==
    LET keys == FirstSeen([i \in 1..Len(messages) |-> KeyOf(messages[i])])
    IN  [pairs |-> UNION {responseTimesForGroup(messages, keys[i]) :
                             i \in 1..Len(keys)},
         records |-> SetResults(messages, keys, Len(keys))]

\* PARTITION BY chat_id over the rows in the order the sort produced.
Partition(rows, c) == SelectSeq(rows, LAMBDA e : e.chat_id = c)

\* response_events: the rows with direction OUTGOING and prev_direction
\* INCOMING, as <<event_id of the previous row, event_id>>.
LagResponseEvents(rows) ==
    UNION {{<<Partition(rows, c)[i - 1].event_id, Partition(rows, c)[i].event_id>> :
              i \in {k \in 2..Len(Partition(rows, c)) :
                        /\ Partition(rows, c)[k].direction = "OUTGOING"
                        /\ Partition(rows, c)[k - 1].direction = "INCOMING"}} :
             c \in {rows[i].chat_id : i \in 1..Len(rows)}}

\* COUNTIF(direction = 'OUTGOING' AND prev_direction = 'OUTGOING') of the
\* group of user u in chat c.
LagFollowUpCount(rows, c, u) ==
    Cardinality({k \in 2..Len(Partition(rows, c)) :
                    /\ Partition(rows, c)[k].user_id = u
                    /\ Partition(rows, c)[k].direction = "OUTGOING"
                    /\ Partition(rows, c)[k - 1].direction = "OUTGOING"})

\* The directions ARRAY_AGG(... ORDER BY message_timestamp ASC LIMIT 1) can
\* return for a group: those of its rows with the least timestamp.
StarterDirections(G) ==
    {e.direction : e \in {x \in G : \A y \in G :
                             x.message_timestamp <= y.message_timestamp}}

\* The same for ORDER BY message_timestamp DESC LIMIT 1.
LastDirections(G) ==
    {e.direction : e \in {x \in G : \A y \in G :
                             x.message_timestamp >= y.message_timestamp}}

\* chat_aggregates: the sets of rows the GROUP BY can produce over the keys
\* in K, the window functions having seen the rows in the order rows.
RECURSIVE ChatAggregates(_, _, _)
ChatAggregates(S, rows, K) ==
    IF K = {} THEN {{}}
    ELSE LET k == CHOOSE x \in K : TRUE
             G == {e \in S : e.chat_id = k[1] /\ e.user_id = k[2]}
         IN  {rest \cup {[chat_id |-> k[1], user_id |-> k[2],
                          follow_up_count |-> LagFollowUpCount(rows, k[1], k[2]),
                          starter_direction |-> a,
                          last_message_direction |-> b]} :
                rest \in ChatAggregates(S, rows, K \ {k}),
                a \in StarterDirections(G), b \in LastDirections(G)}

InitStore ==
    /\ stored_events = {}
    /\ responseTimes = NoCall
    /\ UdfIdle
    /\ ResIdle
    /\ SegIdle
    /\ TgtIdle
    /\ AdjIdle
    /\ SvcIdle

\* A row is added to message_events: not earlier than the rows before it,
\* possibly at the same instant as the last one.
StoreEvent ==
    \E conv \in Conversations, dir \in Directions, ts \in BatchTimes :
        /\ Cardinality(stored_events) < MaxStored
        /\ \A e \in stored_events : e.message_timestamp <= ts
        /\ stored_events' =
             stored_events \cup
               {[event_id |-> Cardinality(stored_events) + 1,
                 user_id |-> conv[1], chat_id |-> conv[2],
                 direction |-> dir, message_timestamp |-> ts]}
        /\ responseTimes' = NoCall
        /\ UNCHANGED <<udfVars, resVars, segVars, tgtVars, adjVars, svcVars>>

\* calculateResponseTimes(messages) on the rows of the message query, in an
\* order its ORDER BY allows (calculateResponseTimesWithWorkingHoursLogging
\* does the same for a user without working hours). A run over rows that a
\* run has already read reaches no state the first run could not reach, and
\* is left out.
CallCalculateResponseTimes ==
    /\ responseTimes = NoCall
    /\ \E messages \in OrdersBy(stored_events, QueryOrder(stored_events)) :
         \E result \in {calculateResponseTimes(messages)} :
            responseTimes' =
               [kind |-> "js", pairs |-> result.pairs, records |-> result.records]
    /\ UNCHANGED <<stored_events, udfVars, resVars, segVars, tgtVars, adjVars, svcVars>>

\* events_with_lag, response_events and chat_aggregates of the lifetime
\* merge, the window's sort having put the rows in an order ORDER BY
\* message_timestamp allows
DeriveChatAggregates ==
    /\ responseTimes = NoCall
    /\ \E rows \in OrdersBy(stored_events, TimestampOrder(stored_events)) :
         \E agg \in ChatAggregates(stored_events, rows,
                                   {<<e.chat_id, e.user_id>> : e \in stored_events}) :
            responseTimes' =
               [kind |-> "sql",
                response_events |-> LagResponseEvents(rows),
                chat_aggregates |-> agg]
    /\ UNCHANGED <<stored_events, udfVars, resVars, segVars, tgtVars, adjVars, svcVars>>

NextStore ==
    \/ StoreEvent
    \/ CallCalculateResponseTimes

SpecStore == InitStore /\ [][NextStore]_vars

\* State machine 6: the same store, read by calculateResponseTimes and by
\* the lifetime merge's window functions.
NextOrder ==
    \/ StoreEvent
    \/ CallCalculateResponseTimes
    \/ DeriveChatAggregates

SpecOrder == InitStore /\ [][NextOrder]_vars

\* ------------------------------------------------------------------
\* Claims about event order (checked under SpecOrder) and about groups
\* (checked under SpecStore)
\* ------------------------------------------------------------------
\* The rows in the order of (message_timestamp, event_id), after the leading
\* columns of the query's ORDER BY when byQuery.
TotalOrder(byQuery) ==
    LET S == stored_events
        key == [e \in S |->
                   (IF byQuery THEN (e.user_id * 10 + e.chat_id) ELSE 0)
                       * 7 * SecondsPerDay * (Cardinality(S) + 1)
                     + EventIdOrder(S)[e]]
    IN  CHOOSE o \in OrdersBy(S, key) : TRUE

\* What chat_aggregates holds when ties are broken by event_id.
TotalOrderAggregates ==
    {[chat_id |-> k[1], user_id |-> k[2],
      follow_up_count |-> LagFollowUpCount(TotalOrder(FALSE), k[1], k[2]),
      starter_direction |->
          SelectSeq(TotalOrder(FALSE),
                    LAMBDA e : e.chat_id = k[1] /\ e.user_id = k[2])[1].direction,
      last_message_direction |->
          LET g == SelectSeq(TotalOrder(FALSE),
                             LAMBDA e : e.chat_id = k[1] /\ e.user_id = k[2])
          IN  g[Len(g)].direction] :
        k \in {<<e.chat_id, e.user_id>> : e \in stored_events}}

\* C16: the response pairs, averages, follow-up counts, starter and last
\* directions derived from the stored events are those of the order by
\* (message_timestamp, event_id), whatever order the store returned events
\* of equal message_timestamp in.
C16_TiesBrokenByEventId ==
    /\ (responseTimes # NoCall /\ responseTimes.kind = "js")
         => /\ responseTimes.pairs = calculateResponseTimes(TotalOrder(TRUE)).pairs
            /\ responseTimes.records = calculateResponseTimes(TotalOrder(TRUE)).records
    /\ (responseTimes # NoCall /\ responseTimes.kind = "sql")
         => /\ responseTimes.response_events = LagResponseEvents(TotalOrder(FALSE))
            /\ responseTimes.chat_aggregates = TotalOrderAggregates

\* C19: every pair counted joins an INCOMING and an OUTGOING message of the
\* same user and chat on the same date, the OUTGOING one not earlier than
\* the INCOMING one and with no other OUTGOING message of the group between
\* the two (it is the first response that follows), so that no INCOMING
\* message is in two pairs.
C19_PairsWithinGroup ==
    (responseTimes # NoCall /\ responseTimes.kind = "js") =>
        /\ \A p \in responseTimes.pairs :
             /\ p.incoming.direction = "INCOMING"
             /\ p.outgoing.direction = "OUTGOING"
             /\ p.incoming.user_id = p.outgoing.user_id
             /\ p.incoming.chat_id = p.outgoing.chat_id
             /\ DATE(p.incoming.message_timestamp, 0)
                  = DATE(p.outgoing.message_timestamp, 0)
             /\ p.incoming.message_timestamp <= p.outgoing.message_timestamp
             /\ \A e \in p.between : e.direction # "OUTGOING"
        /\ \A p, q \in responseTimes.pairs :
             p.incoming = q.incoming => p.outgoing = q.outgoing

\* calculateResponseTimes has counted a pair in a chat whose INCOMING message
\* is followed by two OUTGOING messages on its date or by an OUTGOING message
\* on the next date, another chat of the user holding messages too.
C19_Witness ==
    /\ responseTimes # NoCall
    /\ responseTimes.kind = "js"
    /\ \E p \in responseTimes.pairs :
         /\ \E e \in stored_events :
              /\ e.chat_id # p.incoming.chat_id
              /\ e.user_id = p.incoming.user_id
         /\ \E e \in stored_events :
              /\ e.chat_id = p.incoming.chat_id
              /\ e.user_id = p.incoming.user_id
              /\ e.direction = "OUTGOING"
              /\ e # p.outgoing
              /\ e.message_timestamp >= p.outgoing.message_timestamp

\* The keys of the groups in which a pair was counted.
PairedGroups == {p.key : p \in responseTimes.pairs}

\* C20: the records returned are one per (user, chat, date) group in which a
\* pair was counted, each holding the rounded mean of the response times of
\* its group: no group's record is replaced by that of another group.
C20_GroupsIndependent ==
    (responseTimes # NoCall /\ responseTimes.kind = "js") =>
        /\ Cardinality(responseTimes.records) = Cardinality(PairedGroups)
        /\ \A key \in PairedGroups :
             LET P == {p \in responseTimes.pairs : p.key = key}
             IN  \E r \in responseTimes.records :
                    /\ r.user_id = key[1]
                    /\ r.date = key[3]
                    /\ r.avg_response_time =
                         MathRound(SumResponseTime(P), Cardinality(P))

\* C28: the number of records returned equals the number of (user, org, chat,
\* date) groups with at least one counted response pair, also when several
\* chats of one user on one date share the sender_number of their outgoing
\* messages.
C28_OneRecordPerGroup ==
    (responseTimes # NoCall /\ responseTimes.kind = "js") =>
        Cardinality(responseTimes.records) = Cardinality(PairedGroups)

\* Two chats of one user have a counted pair each on one date.
C28_TwoChatsOneDate ==
    /\ responseTimes # NoCall
    /\ responseTimes.kind = "js"
    /\ \E k1 \in PairedGroups, k2 \in PairedGroups :
         k1 # k2 /\ k1[1] = k2[1] /\ k1[3] = k2[3]

\* ------------------------------------------------------------------
\* adjustResponseTimeForWorkingHours
\* ------------------------------------------------------------------
\* daysOfWeek, indexed by getUTCDay() + 1
daysOfWeek ==
    <<"sunday", "monday", "tuesday", "wednesday", "thursday", "friday", "saturday">>

\* Date.prototype.getUTCDay(): 0 = Sunday .. 6 = Saturday
getUTCDay(t) == DATE(t, 0) % 7

\* const [hour, min] = str.split(':').map(Number): the seconds are dropped.
HourMinuteOf(str) ==
    CASE str = "00:00:00" -> <<0, 0>>
      [] str = "06:00:00" -> <<6, 0>>
      [] str = "09:00:00" -> <<9, 0>>
      [] str = "18:00:00" -> <<18, 0>>
      [] str = "22:00:00" -> <<22, 0>>

\* workingHours.find(wh => wh.week_day === name): the index of the first
\* such row, 0 if there is none.
FindDay(workingHours, name) ==
    IF \E i \in 1..Len(workingHours) : workingHours[i].week_day = name
    THEN CHOOSE i \in 1..Len(workingHours) :
            /\ workingHours[i].week_day = name
            /\ \A j \in 1..(i - 1) : workingHours[j].week_day # name
    ELSE 0

\* new Date(t) with setUTCHours(hour, min, 0, 0)
setUTCHours(t, hm) == DATE(t, 0) * SecondsPerDay + hm[1] * 3600 + hm[2] * 60

\* workingStart / workingEnd of a row on the UTC date of t; an end not after
\* the start is moved to the next day.
WorkingStart(wh, t) == setUTCHours(t, HourMinuteOf(wh.start_time))

WorkingEnd(wh, t) ==
    IF setUTCHours(t, HourMinuteOf(wh.end_time)) <= WorkingStart(wh, t)
    THEN setUTCHours(t, HourMinuteOf(wh.end_time)) + SecondsPerDay
    ELSE setUTCHours(t, HourMinuteOf(wh.end_time))

\* dayWorkingHours of a row: end minus start, plus 24 hours when negative.
dayWorkingHours(wh) ==
    LET d == (HourMinuteOf(wh.end_time)[1] * 3600 + HourMinuteOf(wh.end_time)[2] * 60)
               - (HourMinuteOf(wh.start_time)[1] * 3600
                    + HourMinuteOf(wh.start_time)[2] * 60)
    IN  IF d < 0 THEN d + 24 * 3600 ELSE d

\* The while loop of STEP 2: the days from currentDayIndex up to, not
\* including, outgoingDayIndex.
RECURSIVE totalWorkingHoursInBetween(_, _, _)
totalWorkingHoursInBetween(workingHours, currentDayIndex, outgoingDayIndex) ==
    IF currentDayIndex = outgoingDayIndex THEN 0
    ELSE (IF FindDay(workingHours, daysOfWeek[currentDayIndex + 1]) # 0
          THEN dayWorkingHours(
                   workingHours[FindDay(workingHours, daysOfWeek[currentDayIndex + 1])])
          ELSE 0)
         + totalWorkingHoursInBetween(workingHours, (currentDayIndex + 1) % 7,
                                      outgoingDayIndex)

\* The while loop of the closed-day branch and of STEP 4: the days from
\* currentDayIndex up to and including outgoingDayIndex, the outgoing day
\* counting timeFromOutgoingDayStart.
RECURSIVE totalWorkingHours(_, _, _, _)
totalWorkingHours(workingHours, currentDayIndex, outgoingDayIndex, timeFromOutgoingDayStart) ==
    IF currentDayIndex = (outgoingDayIndex + 1) % 7 THEN 0
    ELSE (IF FindDay(workingHours, daysOfWeek[currentDayIndex + 1]) # 0
          THEN IF currentDayIndex = outgoingDayIndex
               THEN timeFromOutgoingDayStart
               ELSE dayWorkingHours(
                        workingHours[FindDay(workingHours,
                                             daysOfWeek[currentDayIndex + 1])])
          ELSE 0)
         + totalWorkingHours(workingHours, (currentDayIndex + 1) % 7,
                             outgoingDayIndex, timeFromOutgoingDayStart)

\* STEP 3 without its test: no reply is filtered out there.
NeverRepliedOutside(outRow, outgoingInside) == FALSE

\* STEP 3: the outgoing day has a row and the reply is outside its window.
repliedOutsideWorkingHours(outRow, outgoingInside) == outRow # 0 /\ ~outgoingInside

\* adjustResponseTimeForWorkingHours(rawResponseTime, incomingTime,
\* outgoingTime, workingHours, userId), rawResponseTime being the seconds
\* from incomingTime to outgoingTime; NULL for null.
adjustResponseTimeForWorkingHours(incoming, outgoing, workingHours) ==
    LET incomingDayIndex == getUTCDay(incoming)
        outgoingDayIndex == getUTCDay(outgoing)
        inRow == FindDay(workingHours, daysOfWeek[incomingDayIndex + 1])
        outRow == FindDay(workingHours, daysOfWeek[outgoingDayIndex + 1])
        workingStart == WorkingStart(workingHours[inRow], incoming)
        workingEnd == WorkingEnd(workingHours[inRow], incoming)
        outgoingWorkingStart == WorkingStart(workingHours[outRow], outgoing)
        outgoingWorkingEnd == WorkingEnd(workingHours[outRow], outgoing)
        outgoingInside ==
            outgoing >= outgoingWorkingStart /\ outgoing <= outgoingWorkingEnd
        throughOutgoing ==
            Max(0, totalWorkingHours(workingHours, (incomingDayIndex + 1) % 7,
                                     outgoingDayIndex,
                                     outgoing - outgoingWorkingStart))
    IN  IF inRow = 0
        THEN IF outRow = 0 THEN NULL
             ELSE IF outgoingInside THEN throughOutgoing ELSE NULL
        \* STEP 1
        ELSE IF incoming >= workingStart /\ outgoing <= workingEnd
        THEN outgoing - incoming
        \* STEP 2
        ELSE IF /\ incoming >= workingStart
                /\ incoming <= workingEnd
                /\ incomingDayIndex # outgoingDayIndex
        THEN IF outRow # 0 /\ outgoingInside
             THEN Max(0, (workingEnd - incoming)
                           + totalWorkingHoursInBetween(
                                 workingHours, (incomingDayIndex + 1) % 7,
                                 outgoingDayIndex)
                           + (outgoing - outgoingWorkingStart))
             ELSE NULL
        \* STEP 3
        ELSE IF repliedOutsideWorkingHours(outRow, outgoingInside) THEN NULL
        \* STEP 4
        ELSE IF incoming < workingStart \/ incoming > workingEnd
        THEN IF outRow # 0 /\ outgoingInside THEN throughOutgoing ELSE NULL
        \* the remaining cases
        ELSE IF incoming < workingStart /\ outgoing > workingEnd
        THEN IF Max(incoming, workingStart) < Min(outgoing, workingEnd)
             THEN Min(outgoing, workingEnd) - Max(incoming, workingStart)
             ELSE NULL
        ELSE IF /\ incoming < workingStart
                /\ outgoing >= workingStart
                /\ outgoing <= workingEnd
        THEN outgoing - workingStart
        ELSE IF /\ incoming >= workingStart
                /\ incoming <= workingEnd
                /\ outgoing > workingEnd
        THEN workingEnd - incoming
        ELSE NULL

\* ------------------------------------------------------------------
\* State machine 7: calls of adjustResponseTimeForWorkingHours
\* ------------------------------------------------------------------
\* The UTC dates of the messages: Monday, Tuesday, Wednesday, Saturday, and
\* the Monday and Tuesday of the next week.
AdjDates == {1, 2, 3, 6, 8, 9}

\* Their times of day.
AdjClock ==
    {HMS(2, 30, 0), HMS(5, 0, 0), HMS(10, 0, 0), HMS(17, 0, 0), HMS(23, 30, 0)}

AdjTimes == {d * SecondsPerDay + t : d \in AdjDates, t \in AdjClock}

\* The rows of one user on the given days.
DayRows(days, start_time, end_time) ==
    [i \in 1..Len(days) |->
        [week_day |-> days[i], start_time |-> start_time, end_time |-> end_time]]

\* workingHours of the user: Monday to Friday 09:00-18:00; Monday
\* 22:00-06:00 only; Monday to Friday 22:00-06:00; Monday to Friday
\* 09:00-18:00 with a Saturday entry 00:00:00-00:00:00; Monday 22:00-09:00
\* and Tuesday 06:00-18:00, which overlap on Tuesday morning.
AdjSchedules ==
    {DayRows(<<"monday", "tuesday", "wednesday", "thursday", "friday">>,
             "09:00:00", "18:00:00"),
     DayRows(<<"monday">>, "22:00:00", "06:00:00"),
     DayRows(<<"monday", "tuesday", "wednesday", "thursday", "friday">>,
             "22:00:00", "06:00:00"),
     DayRows(<<"monday", "tuesday", "wednesday", "thursday", "friday">>,
             "09:00:00", "18:00:00")
        \o DayRows(<<"saturday">>, "00:00:00", "00:00:00"),
     DayRows(<<"monday">>, "22:00:00", "09:00:00")
        \o DayRows(<<"tuesday">>, "06:00:00", "18:00:00")}

InitAdj ==
    /\ incomingTime \in AdjTimes
    /\ outgoingTime \in {t \in AdjTimes : t >= incomingTime}
    /\ userWorkingHours \in AdjSchedules
    /\ adjusted = NoCall
    /\ UdfIdle
    /\ ResIdle
    /\ SegIdle
    /\ TgtIdle
    /\ StoreIdle
    /\ SvcIdle

\* calculateResponseTimesWithWorkingHoursLogging calls
\* adjustResponseTimeForWorkingHours for a pair it found
AdjustResponseTime ==
    /\ adjusted = NoCall
    /\ adjusted' =
         [kind |-> "adjusted",
          value |-> adjustResponseTimeForWorkingHours(incomingTime, outgoingTime,
                                                      userWorkingHours)]
    /\ UNCHANGED <<incomingTime, outgoingTime, userWorkingHours, udfVars, resVars,
                   segVars, tgtVars, storeVars, svcVars>>

NextAdj == AdjustResponseTime

SpecAdj == InitAdj /\ [][NextAdj]_vars

\* ------------------------------------------------------------------
\* Claims about adjustResponseTimeForWorkingHours (checked under SpecAdj)
\* ------------------------------------------------------------------
Adjusted == adjusted # NoCall

\* The row of the weekday of the UTC date of t, 0 if the day is closed.
RowOfDate(t) == FindDay(userWorkingHours, daysOfWeek[getUTCDay(t) + 1])

\* t lies inside the window of its own weekday.
InsideOwnWindow(t) ==
    /\ RowOfDate(t) # 0
    /\ t >= WorkingStart(userWorkingHours[RowOfDate(t)], t)
    /\ t <= WorkingEnd(userWorkingHours[RowOfDate(t)], t)

\* The full window lengths of the open civil days from date a to date b.
RECURSIVE FullWindows(_, _)
FullWindows(a, b) ==
    IF a > b THEN 0
    ELSE (IF RowOfDate(a * SecondsPerDay) # 0
          THEN dayWorkingHours(userWorkingHours[RowOfDate(a * SecondsPerDay)])
          ELSE 0)
         + FullWindows(a + 1, b)

\* C17: with the incoming time inside its weekday's window and the outgoing
\* time inside the window of a later civil day, the result is (end of the
\* incoming window - incoming) + the full windows of the open civil days
\* between + (outgoing - start of the outgoing window); with the incoming
\* time on a closed day it is the full windows of the open days after it and
\* before the reply's day + (outgoing - start of the outgoing window); for
\* any number of days between, seven or more included.
C17_MultiDaySum ==
    (/\ Adjusted
     /\ DATE(outgoingTime, 0) > DATE(incomingTime, 0)
     /\ InsideOwnWindow(outgoingTime))
    => /\ (/\ InsideOwnWindow(incomingTime)
           /\ outgoingTime > WorkingEnd(userWorkingHours[RowOfDate(incomingTime)],
                                        incomingTime))
            => adjusted.value =
                 (WorkingEnd(userWorkingHours[RowOfDate(incomingTime)], incomingTime)
                    - incomingTime)
                 + FullWindows(DATE(incomingTime, 0) + 1, DATE(outgoingTime, 0) - 1)
                 + (outgoingTime
                      - WorkingStart(userWorkingHours[RowOfDate(outgoingTime)],
                                     outgoingTime))
       /\ RowOfDate(incomingTime) = 0
            => adjusted.value =
                 FullWindows(DATE(incomingTime, 0) + 1, DATE(outgoingTime, 0) - 1)
                 + (outgoingTime
                      - WorkingStart(userWorkingHours[RowOfDate(outgoingTime)],
                                     outgoingTime))

\* C18: when a row of weekday W has its end before its start, an interval
\* from incoming to outgoing that lies inside the range from W's start to the
\* end on the day after W gives its full span, also when the incoming time is
\* after midnight on the day after W.
C18_OvernightWindow ==
    Adjusted =>
        \A i \in 1..Len(userWorkingHours) :
          \A D \in {DATE(incomingTime, 0), DATE(incomingTime, 0) - 1} :
            (/\ D >= 0
             /\ daysOfWeek[(D % 7) + 1] = userWorkingHours[i].week_day
             /\ FindDay(userWorkingHours, userWorkingHours[i].week_day) = i
             /\ WorkingEnd(userWorkingHours[i], D * SecondsPerDay)
                  > (D + 1) * SecondsPerDay
             /\ incomingTime >= WorkingStart(userWorkingHours[i], D * SecondsPerDay)
             /\ outgoingTime <= WorkingEnd(userWorkingHours[i], D * SecondsPerDay))
            => adjusted.value = outgoingTime - incomingTime

\* The schedule without its entries 00:00:00-00:00:00.
WithoutClosedDays(workingHours) ==
    SelectSeq(workingHours,
              LAMBDA wh : ~(wh.start_time = "00:00:00" /\ wh.end_time = "00:00:00"))

\* C25: an entry with start_time = end_time = 00:00:00 is a closed day: the
\* result is the one the schedule without that entry gives.
C25_ClosedDayEntryIgnored ==
    Adjusted
        => adjusted.value =
             adjustResponseTimeForWorkingHours(incomingTime, outgoingTime,
                                               WithoutClosedDays(userWorkingHours))

\* C26: a result that is a number is at least 0 and at most the raw elapsed
\* time outgoing - incoming.
C26_BoundedByRaw ==
    (Adjusted /\ adjusted.value # NULL)
        => /\ adjusted.value >= 0
           /\ adjusted.value <= outgoingTime - incomingTime

\* The outgoing time lies inside the window of the incoming time's weekday,
\* placed on the incoming date.
InsideIncomingWindow ==
    /\ RowOfDate(incomingTime) # 0
    /\ outgoingTime >= WorkingStart(userWorkingHours[RowOfDate(incomingTime)],
                                    incomingTime)
    /\ outgoingTime <= WorkingEnd(userWorkingHours[RowOfDate(incomingTime)],
                                  incomingTime)

\* C27: when the result is a number the outgoing time lies inside the
\* incoming day's window or inside the window of its own weekday, and a reply
\* on a weekday without an entry gives null.
C27_ReplyInsideWindow ==
    Adjusted
        => /\ adjusted.value # NULL
                => (InsideIncomingWindow \/ InsideOwnWindow(outgoingTime))
           /\ RowOfDate(outgoingTime) = 0 => adjusted.value = NULL

\* C27 as it holds: when the result is a number the outgoing time lies inside
\* the incoming day's window or inside the window of its own weekday; a reply
\* outside both, and a reply on a weekday without an entry that the incoming
\* day's window does not reach, gives null.
C27_ReplyInsideSomeWindow ==
    Adjusted
        => /\ adjusted.value # NULL
                => (InsideIncomingWindow \/ InsideOwnWindow(outgoingTime))
           /\ (RowOfDate(outgoingTime) = 0 /\ ~InsideIncomingWindow)
                => adjusted.value = NULL

\* A reply on Wednesday 10:00 to a message of Tuesday 17:00, both inside
\* their own day's window 09:00-18:00, gave a number.
C27_Witness ==
    /\ Adjusted
    /\ incomingTime = 2 * SecondsPerDay + HMS(17, 0, 0)
    /\ outgoingTime = 3 * SecondsPerDay + HMS(10, 0, 0)
    /\ InsideOwnWindow(outgoingTime)
    /\ ~InsideIncomingWindow
    /\ adjusted.value = 2 * 3600

\* ------------------------------------------------------------------
\* State machine 8: the express server, its services and their MySQL
\* connections
\* ------------------------------------------------------------------
\* Requests received in one behaviour, at most.
MaxRequests == 2

\* analyticsService of index.js and the AnalyticsService that
\* bigQueryService constructs for itself.
Services == {"analyticsService", "bigQueryService"}

Routes ==
    {"/user-mapping", "/working-hours", "/process-conversation-summary",
     "/working-hours-config", "/all-working-hours-config"}

\* getWorkingHours / getUserMapping of a service: the test of
\* this.mysqlConn, connectToMySQL when it is null, and the query.
LazyQuery(svc) ==
    <<[op |-> "check", svc |-> svc], [op |-> "lazy_connect", svc |-> svc],
      [op |-> "execute", svc |-> svc]>>

\* BigQueryService.getWorkingHoursConfig and getAllWorkingHoursConfig:
\* connectToMySQL, then the two queries.
ConfigSteps ==
    <<[op |-> "connect", svc |-> "bigQueryService"]>>
        \o LazyQuery("bigQueryService") \o LazyQuery("bigQueryService")

Merge == <<[op |-> "merge", svc |-> "bigQueryService"]>>

Respond == <<[op |-> "respond", svc |-> "analyticsService"]>>

\* processConversationSummary with executeMergeQuery called before the query
\* is generated.
ProcessMergeFirst(useSimpleQuery) ==
    IF useSimpleQuery THEN Merge ELSE Merge \o ConfigSteps

\* processConversationSummary: the query is generated, then executed.
processConversationSummary(useSimpleQuery) ==
    IF useSimpleQuery THEN Merge ELSE ConfigSteps \o Merge

\* The steps a route's handler runs, one per await.
Handler(route, useSimpleQuery) ==
    CASE route = "/user-mapping" -> LazyQuery("analyticsService") \o Respond
      [] route = "/working-hours" -> LazyQuery("analyticsService") \o Respond
      [] route = "/process-conversation-summary" ->
            processConversationSummary(useSimpleQuery) \o Respond
      [] route = "/working-hours-config" -> ConfigSteps \o Respond
      [] route = "/all-working-hours-config" -> ConfigSteps \o Respond

\* The rows of the USING subquery of the query a request generated.
GeneratedSource(useSimpleQuery) ==
    IF useSimpleQuery THEN SimpleSource(message_events)
    ELSE WorkingHoursQuerySource(
             message_events,
             getWorkingHoursConfig(working_hours, user_mappings, 1, 1).workingHours)

\* The columns the generated MERGE writes from S.
GeneratedRow(s, created_at, updated_at) ==
    [uid |-> s.user_id, date |-> s.date,
     analytics |-> [messages_sent |-> s.messages_sent,
                    messages_received |-> s.messages_received,
                    total_messages |-> s.total_messages,
                    number_of_follow_ups |-> s.number_of_follow_ups],
     average_response_time |-> s.average_response_time,
     conversation_starter |-> s.conversation_starter,
     last_message_from |-> s.last_message_from,
     updated_at |-> updated_at, created_at |-> created_at]

\* ON T.uid = S.user_id AND T.org_id = S.org_id AND T.date = S.date AND ...
GeneratedMatches(t, s) == t.uid = s.user_id /\ t.date = s.date

\* The MERGE of generateSimpleMergeQuery / generateMergeQueryWithWorkingHours
\* at CURRENT_TIMESTAMP() = now.
MergeGenerated(target, source, now) ==
    {IF \E s \in source : GeneratedMatches(t, s)
     THEN GeneratedRow(CHOOSE s \in source : GeneratedMatches(t, s),
                       t.created_at, now)
     ELSE t : t \in target}
    \cup {GeneratedRow(s, s.earliest_message, now) :
             s \in {x \in source : ~\E t \in target : GeneratedMatches(t, x)}}

InitSvc ==
    /\ message_events =
         <<[user_id |-> 1, direction |-> "INCOMING",
            message_timestamp |-> SecondsPerDay + HMS(9, 0, 0)],
           [user_id |-> 1, direction |-> "OUTGOING",
            message_timestamp |-> SecondsPerDay + HMS(9, 5, 0)]>>
    /\ bq_working_hours = {}
    /\ deployed_udf = "utc"
    /\ merge_source = NoCall
    /\ conversation_summary = {}
    /\ daily_performance_summary = {}
    /\ current_timestamp = FirstRun
    /\ merge_log = NoCall
    /\ SvcIdle
    /\ UdfIdle
    /\ ResIdle
    /\ StoreIdle
    /\ AdjIdle

\* A request arrives. POST /process-conversation-summary without userId or
\* orgId is answered 400 at once.
Receive ==
    \E route \in Routes, useSimpleQuery \in BOOLEAN, valid \in BOOLEAN :
        /\ shutdown = "running"
        /\ Len(requests) < MaxRequests
        /\ route # "/process-conversation-summary" => (valid /\ ~useSimpleQuery)
        /\ requests' =
             Append(requests,
                    [route |-> route, useSimpleQuery |-> useSimpleQuery,
                     steps |-> IF valid THEN Handler(route, useSimpleQuery) ELSE <<>>,
                     status |-> IF valid THEN 0 ELSE 400,
                     error |-> "", ran_on |-> {}])
        /\ UNCHANGED <<mysqlConn, mysql, jobs, shutdown, udfVars, resVars, segVars,
                       tgtVars, storeVars, adjVars>>

\* The promise a request awaits is rejected: the catch blocks rethrow, and
\* the route answers 500; /user-mapping has no catch and answers nothing.
Thrown(r, error) ==
    [requests EXCEPT ![r].steps = <<>>, ![r].error = error,
                     ![r].status =
                        IF requests[r].route = "/user-mapping" THEN 0 ELSE 500]

Advanced(r) == [requests EXCEPT ![r].steps = Tail(requests[r].steps)]

\* this.mysqlConn = await mysql.createConnection(...), or its rejection
ConnectToMySQL(r) ==
    /\ requests[r].steps # <<>>
    /\ Head(requests[r].steps).op \in {"connect", "lazy_connect"}
    /\ \/ /\ mysql' = Append(mysql, [service |-> Head(requests[r].steps).svc,
                                     open |-> TRUE])
          /\ mysqlConn' =
               [mysqlConn EXCEPT ![Head(requests[r].steps).svc] = Len(mysql) + 1]
          /\ requests' = Advanced(r)
       \/ /\ requests' = Thrown(r, "connect")
          /\ UNCHANGED <<mysql, mysqlConn>>
    /\ UNCHANGED <<jobs, shutdown, udfVars, resVars, segVars, tgtVars, storeVars,
                   adjVars>>

\* if (!this.mysqlConn) { await this.connectToMySQL(); }
CheckConnection(r) ==
    /\ requests[r].steps # <<>>
    /\ Head(requests[r].steps).op = "check"
    /\ requests' =
         [requests EXCEPT ![r].steps =
             IF mysqlConn[Head(requests[r].steps).svc] # 0
             THEN Tail(Tail(requests[r].steps))
             ELSE Tail(requests[r].steps)]
    /\ UNCHANGED <<mysqlConn, mysql, jobs, shutdown, udfVars, resVars, segVars,
                   tgtVars, storeVars, adjVars>>

\* await this.mysqlConn.execute(query): it runs on the connection the field
\* holds now, and is rejected on a closed connection.
Execute(r) ==
    /\ requests[r].steps # <<>>
    /\ Head(requests[r].steps).op = "execute"
    /\ \/ /\ mysql[mysqlConn[Head(requests[r].steps).svc]].open
          /\ requests' =
               [requests EXCEPT
                  ![r].steps = Tail(requests[r].steps),
                  ![r].ran_on = requests[r].ran_on
                                  \cup {mysqlConn[Head(requests[r].steps).svc]}]
       \/ requests' = Thrown(r, "query")
    /\ UNCHANGED <<mysqlConn, mysql, jobs, shutdown, udfVars, resVars, segVars,
                   tgtVars, storeVars, adjVars>>

\* executeMergeQuery(query): the job runs the MERGE, or fails and leaves the
\* target as it was.
ExecuteMergeQuery(r) ==
    /\ requests[r].steps # <<>>
    /\ Head(requests[r].steps).op = "merge"
    /\ \/ /\ conversation_summary' =
               MergeGenerated(conversation_summary,
                              GeneratedSource(requests[r].useSimpleQuery),
                              current_timestamp)
          /\ current_timestamp' = current_timestamp + 1
          /\ jobs' = Append(jobs, [request |-> r, done |-> TRUE,
                                   target |-> conversation_summary'])
          /\ requests' = Advanced(r)
       \/ /\ jobs' = Append(jobs, [request |-> r, done |-> FALSE,
                                   target |-> conversation_summary])
          /\ requests' = Thrown(r, "merge")
          /\ UNCHANGED <<conversation_summary, current_timestamp>>
    /\ UNCHANGED <<daily_performance_summary, merge_log, mysqlConn, mysql,
                   shutdown, udfVars, resVars, segVars, storeVars, adjVars>>

\* res.json(...)
Answer(r) ==
    /\ requests[r].steps # <<>>
    /\ Head(requests[r].steps).op = "respond"
    /\ requests' = [requests EXCEPT ![r].steps = <<>>, ![r].status = 200]
    /\ UNCHANGED <<mysqlConn, mysql, jobs, shutdown, udfVars, resVars, segVars,
                   tgtVars, storeVars, adjVars>>

\* closeConnection(): if (this.mysqlConn) await this.mysqlConn.end()
closeConnection(svc) ==
    IF mysqlConn[svc] # 0
    THEN [mysql EXCEPT ![mysqlConn[svc]].open = FALSE]
    ELSE mysql

\* SIGINT: await analyticsService.closeConnection()
Sigint ==
    /\ shutdown = "running"
    /\ mysql' = closeConnection("analyticsService")
    /\ shutdown' = "closing"
    /\ UNCHANGED <<mysqlConn, requests, jobs, udfVars, resVars, segVars, tgtVars,
                   storeVars, adjVars>>

\* await bigQueryService.closeConnections(); process.exit(0)
SigintExit ==
    /\ shutdown = "closing"
    /\ mysql' = closeConnection("bigQueryService")
    /\ shutdown' = "exited"
    /\ UNCHANGED <<mysqlConn, requests, jobs, udfVars, resVars, segVars, tgtVars,
                   storeVars, adjVars>>

\* A request's handler runs up to its next await.
Step ==
    \E r \in 1..Len(requests) :
        /\ shutdown # "exited"
        /\ \/ ConnectToMySQL(r)
           \/ CheckConnection(r)
           \/ Execute(r)
           \/ ExecuteMergeQuery(r)
           \/ Answer(r)

NextSvc ==
    \/ Receive
    \/ Step
    \/ Sigint
    \/ SigintExit

SpecSvc == InitSvc /\ [][NextSvc]_vars

\* ------------------------------------------------------------------
\* Claims about the server (checked under SpecSvc)
\* ------------------------------------------------------------------
\* The target table as the jobs run so far have left it.
TargetOfJobs == IF jobs = <<>> THEN {} ELSE jobs[Len(jobs)].target

\* C21: a POST /process-conversation-summary whose query generation threw
\* (the connection or a query of the schedule resolution failed) has called
\* executeMergeQuery never and is answered 500; the target table holds what
\* the jobs of other requests left in it.
C21_NoMergeAfterFailedGeneration ==
    /\ conversation_summary = TargetOfJobs
    /\ \A r \in 1..Len(requests) :
         (/\ requests[r].route = "/process-conversation-summary"
          /\ requests[r].error \in {"connect", "query"})
         => /\ requests[r].status = 500
            /\ \A j \in 1..Len(jobs) : jobs[j].request # r

\* A request's schedule resolution has thrown after another request's merge
\* filled the target table.
C21_Witness ==
    /\ conversation_summary # {}
    /\ \E r \in 1..Len(requests) :
         /\ requests[r].route = "/process-conversation-summary"
         /\ requests[r].error = "query"
         /\ requests[r].status = 500

\* The connections opened so far that have not been ended.
OpenConnections(svc) ==
    {c \in 1..Len(mysql) : mysql[c].service = svc /\ mysql[c].open}

\* Every call made so far has returned or thrown.
AllReturned == \A r \in 1..Len(requests) : requests[r].steps = <<>>

\* C22: when SIGINT arrives after every call has returned, closeConnection
\* and closeConnections release every connection connectToMySQL opened: after
\* closeConnection the only connection still open is the one closeConnections
\* ends next.
C22_AllConnectionsReleased ==
    [][(shutdown = "running" /\ shutdown' = "closing" /\ AllReturned)
       => /\ OpenConnections("analyticsService")' = {}
          /\ OpenConnections("bigQueryService")' \subseteq {mysqlConn["bigQueryService"]}]_vars

\* Two GET /working-hours-config requests were answered one after the other
\* and the server has exited with the first one's connection still open.
C22_Leak ==
    /\ shutdown = "exited"
    /\ Len(requests) = 2
    /\ \A r \in 1..2 : /\ requests[r].route = "/working-hours-config"
                       /\ requests[r].status = 200
    /\ requests[1].ran_on = {1}
    /\ requests[2].ran_on = {2}
    /\ OpenConnections("bigQueryService") = {1}

\* C30: a service has at most one MySQL connection open at any time, and once
\* the server has exited every connection a query ran on has been closed.
C30_OneConnectionPerService ==
    /\ \A svc \in Services : Cardinality(OpenConnections(svc)) <= 1
    /\ shutdown = "exited" =>
         \A r \in 1..Len(requests) : \A c \in requests[r].ran_on : ~mysql[c].open

\* Two GET /working-hours requests both found mysqlConn null and both
\* connected: analyticsService has two connections open.
C30_Race ==
    /\ Len(requests) = 2
    /\ \A r \in 1..2 : requests[r].route = "/working-hours"
    /\ OpenConnections("analyticsService") = {1, 2}

====
